---------------------------- MODULE Spec2Model ----------------------------
(***************************************************************************)
(* A model of the real-time core of imagene: the shared sample channel     *)
(* (RingBuffer / AudioRecorderProcessor.pushToBuffer / WorkerRingBuffer),  *)
(* the hysteresis NoteDecoder and the AudioProcessor worker that drives    *)
(* it.                                                                     *)
(*                                                                         *)
(* Units.  Probabilities are integer levels 0..MaxLevel standing for       *)
(* level / MaxLevel, thresholds are on the same scale.  Times are counted  *)
(* in samples (seconds x sampleRate), so that                              *)
(*   frameTime = baseTimestamp + frameIndex * hopSize / sampleRate         *)
(* is the integer  processedSamples + frameIndex * hopSize  and            *)
(* minDurationSeconds is a number of samples.                              *)
(***************************************************************************)
EXTENDS Integers, Sequences, FiniteSets, TLC

(***************************************************************************)
(* Bounds of the model.                                                    *)
(***************************************************************************)
\* largest channel capacity (storage.length) explored
MaxCapacity == 3
\* most samples the producer offers in one push / process() block
MaxBatch == 2
\* samples offered in a run of the channel; each is a distinct id 1..MaxSamples
MaxSamples == 4
\* longest output buffer / skip count the consumer passes
MaxOut == 2
\* clear() / reset() calls in a run of the channel
MaxClears == 1
\* probabilities are the levels 0..MaxLevel, standing for level / MaxLevel
MaxLevel == 2
\* frames fed to a decoder in one run
MaxFrames == 4
\* largest minNoteDuration configured, in samples
MaxMinDuration == 3
\* the decoder's hopSize (config.hopSize), in samples
hopSize == 2
\* config.sampleRate, in samples per second
sampleRate == 4
\* config.windowSize, the samples of one spectrogram frame
windowSize == 4
\* samples the microphone delivers in a run of the worker
MaxCaptured == 12
\* processAudio calls that may await inference at once
MaxInFlight == 2
\* recordings started in a run of the worker
MaxRecordings == 2
\* DetectedNotes in one quantizeNotes call
MaxNotes == 2
\* onsets the quantizer's detector is given in all
MaxHistory == 4
\* onsets a detector used on its own is given
MaxOnsets == 5
\* the longest duration findDurationType is asked about, in 1/32 beats
MaxDurationSteps == 160
\* the greatest beat snapToGrid is asked about, in 1/160 beats
MaxGridSteps == 40

(***************************************************************************)
(* Program constants.                                                      *)
(***************************************************************************)
PIANO_MIN_MIDI == 21
NUM_PIANO_KEYS == 88
PROCESSING_WINDOW_SECONDS == 2

VARIABLES
  \* ---- the shared channel (SharedArrayBuffer) ----
  capacity,      \* storage.length
  writeIndex,    \* states[STATE_WRITE_INDEX]
  readIndex,     \* states[STATE_READ_INDEX]
  storage,       \* Float32Array of capacity slots, indexed 0..capacity-1
  \* ---- the producer (push / pushToBuffer), one step per memory access ----
  pPc,           \* position in push
  pImpl,         \* "push" (RingBuffer) or "pushToBuffer" (worklet)
  pData,         \* the batch offered
  pW,            \* writeIndex as loaded by availableWrite
  pToWrite,      \* toWrite
  pWriteIndex,   \* the local writeIndex of push
  pI,            \* samples written so far in this push
  pRet,          \* value returned by the last push
  \* ---- the consumer (pull / peek / skip), one step per memory access ----
  cPc,           \* position in the call
  cOp,           \* "pull", "peek", "skip", "reset"
  cLen,          \* output.length, or count for skip
  cOffset,       \* peek's offset
  cW,            \* writeIndex as loaded by availableRead
  cToRead,       \* toRead / toSkip
  cReadIndex,    \* the local readIndex
  cI,            \* samples copied so far
  cOut,          \* the output buffer filled so far
  cRet,          \* value returned by the last consumer call
  \* ---- observation of the channel (history, not program state) ----
  nextSample,    \* id of the next sample offered
  accepted,      \* ids accepted by push, in order
  taken,         \* what left the channel, in order: Pulled(id) or Skipped
  offeredAvail,  \* availableWrite() as returned to the push in progress
  badAccess,     \* a storage access fell outside 0..capacity-1
  readUnwritten, \* the consumer read a slot of a push still in progress
  overwroteUnread, \* the producer wrote a slot holding an unread sample
  clears,          \* clear() / reset() calls so far
  \* ---- NoteDecoder ----
  activeNotes,        \* Map midiNote -> ActiveNoteState
  onsetThreshold,
  offsetThreshold,
  minDurationSeconds, \* in samples (seconds x sampleRate)
  completedNotes,     \* what the last processFrame / closeAllNotes returned
  \* ---- observation of the decoder (history, not program state) ----
  frameCount,         \* frames fed so far; the next frameIndex
  emitted,            \* every note returned so far, as NoteSpan, in order
  trace6,             \* where the traced pitch stands in the hysteresis trace
  trace8,             \* where the traced pitch stands in the low-high-low trace
  lastClose,          \* closeAllNotes: was it called, the pitches then ACTIVE
  lastSet,            \* setThresholds: was it called, its last arguments, and
                      \* was a frame processed since
  \* ---- AudioProcessor (the worker) ----
  initialized,        \* config, ringBuffer, melExtractor, noteDecoder are set
  session,            \* session !== null
  demoMode,
  loading,            \* initialize() calls awaiting loadModel
  isRunning,
  processingInterval, \* processingInterval !== null
  processedSamples,
  inFlight,           \* processAudio calls awaiting session.run
  inbox,              \* messages posted to the worker, not yet handled
  \* ---- AudioEngine and the microphone ----
  isRecording,
  recordings,         \* startRecording calls so far
  captured,           \* samples delivered by the microphone so far
  sharedArrayBuffer,  \* typeof SharedArrayBuffer !== 'undefined'
  isInitialized,      \* AudioEngine.isInitialized
  sharedBuffer,       \* AudioEngine.sharedBuffer !== null
  thrown,             \* what the last startRecording call threw, if it did
  \* ---- observation of the worker (history, not program state) ----
  stopped,            \* STOP was handled and no START took effect since
  postedSinceStop,    \* types of the messages posted since, after the first
                      \* such STOP's own
  lastFrame,          \* was a frame handed to processFrame since START took
                      \* effect, and the time of the last one
  lastTask,           \* the worker's last task (a message handler, a tick of
                      \* the interval, or what follows an await) and the
                      \* types of the messages it posted
  windowLog,          \* where the windows peeked by processAudio start: of
                      \* the calls awaiting session.run, and of the last
                      \* call that reached its skip since START took effect
  \* ---- the NoteQuantizer and its BeatDetector ----
  config,             \* NoteQuantizer.config
  onsetTimes,         \* BeatDetector.onsetTimes
  \* ---- observation of the quantizer (history, not program state) ----
  lastOp,             \* the last method called on the quantizer or detector
  lastArg,            \* what it was given: a DetectedNote list, a beat, or <<>>
  returned,           \* what it returned
  repeated,           \* it was quantizeNotes, called with the list and
                      \* configuration of the call just before, or
                      \* snapToGrid, called with what the snapToGrid call
                      \* just before returned
  \* ---- the PianoScript language (lib/language) ----
  events,             \* a PianoScript: the NoteEvent list given or parsed
  script,             \* a script: its lines, given or generated
  langOp,             \* the last of parsePianoScript / generatePianoScript
                      \* called, if any
  \* ---- AudioRecorderProcessor, the capture worklet ----
  recorderInitialized, \* its isInitialized
  recorderRecording,   \* its isRecording
  \* ---- the control context: useTranscription and the store ----
  recordingState,     \* 'idle', 'recording', 'processing'
  detectedNotes,      \* the store's detectedNotes
  outbox,             \* messages the worker has posted, not yet delivered
  finalizeTimer,      \* the setTimeouts of stop() still pending
  \* ---- observation of a recording session (history, not program state) ----
  sessionStart        \* writeIndex when the engine last started recording

chanVars == <<capacity, writeIndex, readIndex, storage,
              pPc, pImpl, pData, pW, pToWrite, pWriteIndex, pI, pRet,
              cPc, cOp, cLen, cOffset, cW, cToRead, cReadIndex, cI, cOut, cRet,
              nextSample, accepted, taken, offeredAvail,
              badAccess, readUnwritten, overwroteUnread, clears>>

decVars == <<activeNotes, onsetThreshold, offsetThreshold, minDurationSeconds,
             completedNotes, frameCount, emitted, trace6, trace8, lastClose,
             lastSet>>

wkVars == <<initialized, session, demoMode, loading, isRunning,
            processingInterval, processedSamples, inFlight, inbox,
            isRecording, recordings, captured, stopped, postedSinceStop,
            lastFrame, lastTask, windowLog,
            sharedArrayBuffer, isInitialized, sharedBuffer, thrown>>

engVars == <<sharedArrayBuffer, isInitialized, sharedBuffer, thrown>>

qVars == <<config, onsetTimes, lastOp, lastArg, returned, repeated>>

lgVars == <<events, script, langOp>>

ctlVars == <<recorderInitialized, recorderRecording, recordingState,
             detectedNotes, outbox, finalizeTimer, sessionStart>>

vars == <<chanVars, decVars, wkVars, qVars, lgVars, ctlVars>>

Min(a, b) == IF a <= b THEN a ELSE b
Max(a, b) == IF a >= b THEN a ELSE b

\* the entries of the history variable taken: a sample pull returned, or the
\* place of a sample that skip passed over unseen
Pulled(id) == [seen |-> TRUE, id |-> id]
Skipped == [seen |-> FALSE, id |-> 0]

(***************************************************************************)
(* RingBuffer: the index arithmetic                                        *)
(***************************************************************************)
availableRead(w, r, cap) == IF w >= r THEN w - r ELSE cap - r + w

availableWrite(w, r, cap) == cap - 1 - availableRead(w, r, cap)

\* mutant: the wrapped branch forgets the slot kept unused
getAvailableWrite_NoSpare(w, r, cap) ==
  IF w >= r THEN cap - 1 - (w - r) ELSE r - w

\* AudioRecorderProcessor.getAvailableWrite: the worklet's own copy
getAvailableWrite(w, r, cap) ==
  IF w >= r THEN cap - 1 - (w - r) ELSE r - w - 1

\* mutant: push takes the whole batch, whatever room there is
toWriteOf_All(available, len) == len

\* toWrite = Math.min(available, data.length)
toWriteOf(available, len) == Min(available, len)

\* mutant: both chunks are written from writeIndex on, without wrapping
slotOf_NoWrap(index, i, cap) == index + i

\* the slot the i-th sample (0-based) of a call goes to or comes from:
\* storage[index + i] in the first chunk, storage[i - firstChunk] in the second
slotOf(index, i, cap) ==
  LET firstChunk == cap - index
  IN IF i < firstChunk THEN index + i ELSE i - firstChunk

\* mutant: the new index is not reduced modulo capacity
advance_NoMod(index, n, cap) == index + n

\* (index + n) % capacity
advance(index, n, cap) == (index + n) % cap

\* mutant: peek starts at readIndex whatever the offset
peekStart_NoOffset(index, offset, cap) == index

\* peek: readIndex = (readIndex + offset) % capacity
peekStart(index, offset, cap) == (index + offset) % cap

\* mutant: pull trusts output.length, not availableRead()
toReadOf_All(available, len) == len

\* toRead = Math.min(available, output.length)
toReadOf(available, len) == Min(available, len)

(***************************************************************************)
(* What the observation variables measure.                                 *)
(***************************************************************************)
\* samples accepted and not yet taken
unread == Len(accepted) - Len(taken)

\* the slots that hold the unread samples: unread slots from readIndex on
unreadSlots == { (readIndex + k) % capacity : k \in 0..(unread - 1) }

\* the history of accepted and taken samples is kept until the first clear(),
\* which throws the stream away
observing == clears = 0

\* the slots of the push in progress, written or about to be written
pendingSlots ==
  IF pPc \in {"write", "store"}
    THEN { slotOf(pWriteIndex, k, capacity) : k \in 0..(pToWrite - 1) }
    ELSE {}

\* createRingBufferStorage(cap), and nobody in a call
ChannelOf(cap) ==
  /\ capacity = cap
  /\ writeIndex = 0
  /\ readIndex = 0
  /\ storage = [i \in 0..(capacity - 1) |-> 0]
  /\ pPc = "idle" /\ pImpl = "push" /\ pData = <<>>
  /\ pW = 0 /\ pToWrite = 0 /\ pWriteIndex = 0 /\ pI = 0 /\ pRet = 0
  /\ cPc = "idle" /\ cOp = "pull" /\ cLen = 0 /\ cOffset = 0
  /\ cW = 0 /\ cToRead = 0 /\ cReadIndex = 0 /\ cI = 0
  /\ cOut = <<>> /\ cRet = 0
  /\ nextSample = 1
  /\ accepted = <<>>
  /\ taken = <<>>
  /\ offeredAvail = 0
  /\ badAccess = FALSE
  /\ readUnwritten = FALSE
  /\ overwroteUnread = FALSE
  /\ clears = 0

\* an empty Map of active notes; a Map is the sequence of its values in
\* insertion order, which is the order forEach visits them in
NoNotes == <<>>

\* the channel alone: a decoder with the worker's defaults that is never fed
DecoderUnused ==
  /\ activeNotes = NoNotes
  /\ onsetThreshold = MaxLevel
  /\ offsetThreshold = 1
  /\ minDurationSeconds = 1
  /\ completedNotes = <<>>
  /\ frameCount = 0
  /\ emitted = <<>>
  /\ trace6 = [phase |-> "off", a |-> 0, b |-> 0, dip |-> FALSE]
  /\ trace8 = [phase |-> "off", s |-> 0, e |-> 0, aboveOffset |-> TRUE]
  /\ lastClose = [called |-> FALSE, pitches |-> {}]
  /\ lastSet = [called |-> FALSE, onset |-> 0, offset |-> 0, used |-> FALSE]

\* the worker as constructed, never sent a message
\* { code, message, recoverable }: the object createError returns, which is
\* not an Error
createError(code, recoverable) ==
  [code |-> code, recoverable |-> recoverable, isError |-> FALSE]

NoError == [code |-> "", recoverable |-> FALSE, isError |-> FALSE]

\* the worker and the engine as constructed, whatever the browser offers
WorkerAtRest ==
  /\ initialized = FALSE
  /\ session = FALSE
  /\ demoMode = FALSE
  /\ loading = 0
  /\ isRunning = FALSE
  /\ processingInterval = FALSE
  /\ processedSamples = 0
  /\ inFlight = 0
  /\ inbox = <<>>
  /\ isRecording = FALSE
  /\ recordings = 0
  /\ captured = 0
  /\ stopped = FALSE
  /\ postedSinceStop = {}
  /\ lastFrame = [any |-> FALSE, time |-> 0]
  /\ lastTask = [name |-> "none", posted |-> {}]
  /\ windowLog = [pending |-> <<>>, any |-> FALSE, start |-> 0]
  /\ isInitialized = FALSE
  /\ sharedBuffer = FALSE
  /\ thrown = NoError

WorkerUnused ==
  /\ WorkerAtRest
  /\ sharedArrayBuffer = TRUE

\* ---------------------------------------------------------------------------
\* The quantizer (music/Quantizer.ts).  Its numbers are modelled exactly, as
\* integers: a time is a count of ticks of 1/960 s, and a beat position or
\* length is a count of units of 1/57600 beat, so that timeToBeat is
\* time * bpm for every whole bpm and every grid, dotted, tolerance and
\* triplet value below is a whole number of units.
\* ---------------------------------------------------------------------------
OneSecond == 960

OneBeat == OneSecond * 60

\* DURATION_GRID, whole note first
DURATION_GRID ==
  << [type |-> "whole",   beats |-> 4 * OneBeat],
     [type |-> "half",    beats |-> 2 * OneBeat],
     [type |-> "quarter", beats |-> OneBeat],
     [type |-> "eighth",  beats |-> OneBeat \div 2],
     [type |-> "16th",    beats |-> OneBeat \div 4],
     [type |-> "32nd",    beats |-> OneBeat \div 8],
     [type |-> "64th",    beats |-> OneBeat \div 16] >>

\* beats * DOTTED_MULTIPLIER (1.5)
DOTTED_MULTIPLIER(beats) == (beats * 3) \div 2

\* snapTolerance is kept in tenths: 3 is 0.3
DEFAULT_CONFIG ==
  [bpm |-> 120, snapTolerance |-> 3, minQuantization |-> OneBeat \div 16,
   detectTriplets |-> FALSE]

maxOnsets == 100

\* no worklet created, nothing recorded, nothing posted to the control context
ControlUnused ==
  /\ recorderInitialized = FALSE
  /\ recorderRecording = FALSE
  /\ recordingState = "idle"
  /\ detectedNotes = <<>>
  /\ outbox = <<>>
  /\ finalizeTimer = 0
  /\ sessionStart = 0

\* the language functions never called
LanguageUnused ==
  /\ events = <<>>
  /\ script = <<>>
  /\ langOp = "none"

\* a quantizer as constructed with no argument, never called
QuantizerUnused ==
  /\ config = DEFAULT_CONFIG
  /\ onsetTimes = <<>>
  /\ lastOp = "none"
  /\ lastArg = <<>>
  /\ returned = <<>>
  /\ repeated = FALSE

InitChannel == \E cap \in 1..MaxCapacity : ChannelOf(cap)

pLocals == <<pPc, pImpl, pData, pW, pToWrite, pWriteIndex, pI, pRet>>
cLocals == <<cPc, cOp, cLen, cOffset, cW, cToRead, cReadIndex, cI, cOut, cRet>>

(***************************************************************************)
(* The producer: RingBuffer.push and AudioRecorderProcessor.pushToBuffer,  *)
(* one action per shared-memory access.                                    *)
(***************************************************************************)
\* a call of push(data) / pushToBuffer(samples) begins
PushCall ==
  /\ pPc = "idle"
  /\ \E impl \in {"push", "pushToBuffer"}, n \in 1..MaxBatch :
       /\ nextSample + n - 1 <= MaxSamples
       /\ pImpl' = impl
       /\ pData' = [k \in 1..n |-> nextSample + k - 1]
       /\ nextSample' = nextSample + n
  /\ pPc' = "availW"
  /\ pI' = 0
  /\ UNCHANGED <<qVars, lgVars, ctlVars, capacity, writeIndex, readIndex, storage, pW, pToWrite,
                 pWriteIndex, pRet, cLocals, accepted, taken, offeredAvail,
                 badAccess, readUnwritten, overwroteUnread, clears, decVars, wkVars>>

\* availableRead / getAvailableWrite: Atomics.load(states, STATE_WRITE_INDEX)
PushLoadWrite ==
  /\ pPc = "availW"
  /\ pW' = writeIndex
  /\ pPc' = "availR"
  /\ UNCHANGED <<qVars, lgVars, ctlVars, capacity, writeIndex, readIndex, storage, pImpl, pData, pToWrite, pWriteIndex, pI, pRet, cLocals, nextSample, accepted,
                 taken, offeredAvail, badAccess, readUnwritten, overwroteUnread, clears, decVars, wkVars>>

\* push, had it tried again until the consumer makes room
PushLoadRead_Retry ==
  /\ pPc = "availR"
  /\ LET available == IF pImpl = "push"
                        THEN availableWrite(pW, readIndex, capacity)
                        ELSE getAvailableWrite(pW, readIndex, capacity)
         toWrite == toWriteOf(available, Len(pData))
     IN /\ offeredAvail' = available
        /\ pToWrite' = toWrite
        /\ pPc' = IF toWrite = 0 THEN "availW" ELSE "loadW"
  /\ pW' = 0
  /\ UNCHANGED <<qVars, lgVars, ctlVars, capacity, writeIndex, readIndex, storage, pImpl, pData,
                 pWriteIndex, pI, pRet, cLocals, nextSample, accepted, taken,
                 badAccess, readUnwritten, overwroteUnread, clears, decVars, wkVars>>

\* Atomics.load(states, STATE_READ_INDEX), then toWrite and the early return
PushLoadRead ==
  /\ pPc = "availR"
  /\ LET available == IF pImpl = "push"
                        THEN availableWrite(pW, readIndex, capacity)
                        ELSE getAvailableWrite(pW, readIndex, capacity)
         toWrite == toWriteOf(available, Len(pData))
     IN /\ offeredAvail' = available
        /\ pToWrite' = toWrite
        /\ IF toWrite = 0
             THEN pPc' = "idle" /\ pRet' = 0 /\ pImpl' = "push"
             ELSE pPc' = "loadW" /\ pRet' = pRet /\ pImpl' = pImpl
  /\ pW' = 0
  /\ UNCHANGED <<qVars, lgVars, ctlVars, capacity, writeIndex, readIndex, storage, pData,
                 pWriteIndex, pI, cLocals, nextSample, accepted, taken,
                 badAccess, readUnwritten, overwroteUnread, clears, decVars, wkVars>>

\* let writeIndex = Atomics.load(states, STATE_WRITE_INDEX)
PushLoadIndex ==
  /\ pPc = "loadW"
  /\ pWriteIndex' = writeIndex
  /\ pPc' = "write"
  /\ pI' = 0
  /\ UNCHANGED <<qVars, lgVars, ctlVars, capacity, writeIndex, readIndex, storage, pImpl, pData, pW, pToWrite, pRet, cLocals, nextSample, accepted, taken,
                 offeredAvail, badAccess, readUnwritten, overwroteUnread, clears, decVars, wkVars>>

\* one iteration of the two copy loops: storage[slot] = data[i]
PushWrite ==
  /\ pPc = "write"
  /\ pI < pToWrite
  /\ LET slot == slotOf(pWriteIndex, pI, capacity)
     IN IF slot \in 0..(capacity - 1)
          THEN /\ storage' = [storage EXCEPT ![slot] = pData[pI + 1]]
               /\ overwroteUnread' = (overwroteUnread \/ slot \in unreadSlots)
               /\ badAccess' = badAccess
          ELSE \* a typed array ignores a store past its end
               /\ storage' = storage
               /\ overwroteUnread' = overwroteUnread
               /\ badAccess' = TRUE
  /\ pI' = pI + 1
  /\ pPc' = IF pI + 1 = pToWrite THEN "store" ELSE "write"
  /\ UNCHANGED <<qVars, lgVars, ctlVars, capacity, writeIndex, readIndex, pImpl, pData, pW, pToWrite,
                 pWriteIndex, pRet, cLocals, nextSample, accepted, taken,
                 offeredAvail, readUnwritten, clears, decVars, wkVars>>

\* Atomics.store(states, STATE_WRITE_INDEX, newWriteIndex); return toWrite
PushStore ==
  /\ pPc = "store"
  /\ writeIndex' = advance(pWriteIndex, pToWrite, capacity)
  /\ accepted' = IF observing THEN accepted \o SubSeq(pData, 1, pToWrite)
                               ELSE accepted
  /\ pRet' = pToWrite
  /\ pPc' = "idle"
  /\ pImpl' = "push" /\ pWriteIndex' = 0 /\ pI' = 0
  /\ UNCHANGED <<qVars, lgVars, ctlVars, capacity, readIndex, storage, pData, pW, pToWrite,
                 cLocals, nextSample, taken, offeredAvail,
                 badAccess, readUnwritten, overwroteUnread, clears, decVars, wkVars>>

ProducerStep ==
  \/ PushCall
  \/ PushLoadWrite
  \/ PushLoadRead
  \/ PushLoadIndex
  \/ PushWrite
  \/ PushStore


(***************************************************************************)
(* The consumer: RingBuffer.pull / peek / skip (WorkerRingBuffer is a copy *)
(* of them), one action per shared-memory access.                          *)
(***************************************************************************)
\* a call of pull(output), peek(output, offset) or skip(count) begins
ConsumerCall ==
  /\ cPc = "idle"
  /\ \E op \in {"pull", "peek", "skip"}, n \in 1..MaxOut, off \in 0..MaxOut :
       /\ op # "peek" => off = 0
       /\ cOp' = op
       /\ cLen' = n
       /\ cOffset' = off
  /\ cPc' = "availW"
  /\ cI' = 0
  /\ cOut' = <<>>
  /\ UNCHANGED <<qVars, lgVars, ctlVars, capacity, writeIndex, readIndex, storage, pLocals, cW, cToRead, cReadIndex, cRet, nextSample, accepted, taken,
                 offeredAvail, badAccess, readUnwritten, overwroteUnread, clears, decVars, wkVars>>

\* availableRead: Atomics.load(states, STATE_WRITE_INDEX)
ConsumerLoadWrite ==
  /\ cPc = "availW"
  /\ cW' = writeIndex
  /\ cPc' = "availR"
  /\ UNCHANGED <<qVars, lgVars, ctlVars, capacity, writeIndex, readIndex, storage, pLocals, cOp, cLen,
                 cOffset, cToRead, cReadIndex, cI, cOut, cRet, nextSample,
                 accepted, taken, offeredAvail, badAccess, readUnwritten,
                 overwroteUnread, clears, decVars, wkVars>>

\* availableRead: Atomics.load(states, STATE_READ_INDEX), then toRead / toSkip
\* and the early returns
ConsumerLoadRead ==
  /\ cPc = "availR"
  /\ LET available == availableRead(cW, readIndex, capacity)
         toRead == IF cOp = "peek"
                     THEN IF cOffset >= available
                            THEN 0
                            ELSE toReadOf(available - cOffset, cLen)
                     ELSE toReadOf(available, cLen)
     IN /\ cToRead' = toRead
        /\ IF toRead = 0
             THEN cPc' = "idle" /\ cRet' = 0
             ELSE cPc' = "loadR" /\ cRet' = cRet
  /\ cW' = 0
  /\ UNCHANGED <<qVars, lgVars, ctlVars, capacity, writeIndex, readIndex, storage, pLocals, cOp, cLen,
                 cOffset, cReadIndex, cI, cOut, nextSample, accepted, taken,
                 offeredAvail, badAccess, readUnwritten, overwroteUnread, clears, decVars, wkVars>>

\* let readIndex = Atomics.load(states, STATE_READ_INDEX);
\* peek: readIndex = (readIndex + offset) % capacity
ConsumerLoadIndex ==
  /\ cPc = "loadR"
  /\ cReadIndex' = IF cOp = "peek"
                     THEN peekStart(readIndex, cOffset, capacity)
                     ELSE readIndex
  /\ cPc' = IF cOp = "skip" THEN "store" ELSE "read"
  /\ cI' = 0
  /\ UNCHANGED <<qVars, lgVars, ctlVars, capacity, writeIndex, readIndex, storage, pLocals, cOp, cLen,
                 cOffset, cW, cToRead, cOut, cRet, nextSample, accepted,
                 taken, offeredAvail, badAccess, readUnwritten, overwroteUnread, clears, decVars, wkVars>>

\* one iteration of the two copy loops: output[i] = storage[slot];
\* after the last one peek returns toRead
ConsumerRead ==
  /\ cPc = "read"
  /\ cI < cToRead
  /\ LET slot == slotOf(cReadIndex, cI, capacity)
     IN IF slot \in 0..(capacity - 1)
          THEN /\ cOut' = Append(cOut, storage[slot])
               /\ readUnwritten' = (readUnwritten \/ slot \in pendingSlots)
               /\ badAccess' = badAccess
          ELSE \* a read past the end of a typed array gives undefined
               /\ cOut' = Append(cOut, -1)
               /\ readUnwritten' = readUnwritten
               /\ badAccess' = TRUE
  /\ IF cI + 1 < cToRead
       THEN /\ cPc' = "read" /\ cRet' = cRet
            /\ cI' = cI + 1 /\ cReadIndex' = cReadIndex
       ELSE IF cOp = "peek"
              THEN /\ cPc' = "idle" /\ cRet' = cToRead
                   /\ cI' = 0 /\ cReadIndex' = 0
              ELSE /\ cPc' = "store" /\ cRet' = cRet
                   /\ cI' = cI + 1 /\ cReadIndex' = cReadIndex
  /\ UNCHANGED <<qVars, lgVars, ctlVars, capacity, writeIndex, readIndex, storage, pLocals, cOp, cLen,
                 cOffset, cW, cToRead, nextSample, accepted,
                 taken, offeredAvail, overwroteUnread, clears, decVars, wkVars>>

\* pull / skip: Atomics.store(states, STATE_READ_INDEX, newReadIndex); return
ConsumerStore ==
  /\ cPc = "store"
  /\ readIndex' = advance(cReadIndex, cToRead, capacity)
  /\ taken' = IF ~observing
                THEN taken
                ELSE IF cOp = "pull"
                       THEN taken \o [k \in 1..Len(cOut) |-> Pulled(cOut[k])]
                       ELSE taken \o [k \in 1..cToRead |-> Skipped]
  /\ cRet' = cToRead
  /\ cPc' = "idle"
  /\ cI' = 0 /\ cReadIndex' = 0
  /\ UNCHANGED <<qVars, lgVars, ctlVars, capacity, writeIndex, storage, pLocals, cOp, cLen, cOffset, cW,
                 cToRead, cOut, nextSample, accepted,
                 offeredAvail, badAccess, readUnwritten, overwroteUnread, clears, decVars, wkVars>>

ConsumerStep ==
  \/ ConsumerCall
  \/ ConsumerLoadWrite
  \/ ConsumerLoadRead
  \/ ConsumerLoadIndex
  \/ ConsumerRead
  \/ ConsumerStore

(***************************************************************************)
(* clear: the operations that reset both indices.                          *)
(***************************************************************************)
\* AudioRecorderProcessor.handleMessage 'clear' -> clearBuffer(), on the
\* producer's thread between two process() calls: first store
WorkletClearWrite ==
  /\ pPc = "idle"
  /\ clears < MaxClears
  /\ clears' = clears + 1
  /\ writeIndex' = 0
  /\ accepted' = <<>> /\ taken' = <<>>
  /\ pPc' = "clearR"
  /\ UNCHANGED <<qVars, lgVars, ctlVars, capacity, readIndex, storage, pImpl, pData, pW, pToWrite,
                 pWriteIndex, pI, pRet, cLocals, nextSample,
                 offeredAvail, badAccess, readUnwritten, overwroteUnread,
                 decVars, wkVars>>

\* clearBuffer(): Atomics.store(this.states, STATE_READ_INDEX, 0)
WorkletClearRead ==
  /\ pPc = "clearR"
  /\ readIndex' = 0
  /\ pPc' = "idle"
  /\ UNCHANGED <<qVars, lgVars, ctlVars, capacity, writeIndex, storage, pImpl, pData, pW, pToWrite,
                 pWriteIndex, pI, pRet, cLocals, nextSample, accepted, taken,
                 offeredAvail, badAccess, readUnwritten, overwroteUnread, clears, decVars, wkVars>>

\* WindowedRingBufferReader.reset() -> RingBuffer.clear(), on the consumer's
\* thread: Atomics.store(this.states, STATE_WRITE_INDEX, 0)
ReaderResetWrite ==
  /\ cPc = "idle"
  /\ clears < MaxClears
  /\ clears' = clears + 1
  /\ writeIndex' = 0
  /\ accepted' = <<>> /\ taken' = <<>>
  /\ cOp' = "reset"
  /\ cPc' = "clearR"
  /\ UNCHANGED <<qVars, lgVars, ctlVars, capacity, readIndex, storage, pLocals, cLen, cOffset, cW, cToRead, cReadIndex, cI, cOut, cRet, nextSample, offeredAvail, badAccess, readUnwritten, overwroteUnread,
                 decVars, wkVars>>

\* RingBuffer.clear(): Atomics.store(this.states, STATE_READ_INDEX, 0)
ReaderResetRead ==
  /\ cPc = "clearR"
  /\ readIndex' = 0
  /\ cPc' = "idle"
  /\ UNCHANGED <<qVars, lgVars, ctlVars, capacity, writeIndex, storage, pLocals, cOp, cLen, cOffset, cW,
                 cToRead, cReadIndex, cI, cOut, cRet, nextSample, accepted,
                 taken, offeredAvail, badAccess, readUnwritten, overwroteUnread, clears, decVars, wkVars>>

ClearStep ==
  \/ WorkletClearWrite
  \/ WorkletClearRead
  \/ ReaderResetWrite
  \/ ReaderResetRead

\* one producer and one consumer, no clear()
NextChannel ==
  \/ ProducerStep
  \/ ConsumerStep

\* every operation the code offers on the channel
NextChannelOps ==
  \/ ProducerStep
  \/ ConsumerStep
  \/ ClearStep

InitChannelAlone ==
  /\ InitChannel
  /\ DecoderUnused
  /\ WorkerUnused
  /\ QuantizerUnused
  /\ LanguageUnused
  /\ ControlUnused

SpecChannel == InitChannelAlone /\ [][NextChannel]_vars

SpecChannelOps == InitChannelAlone /\ [][NextChannelOps]_vars

(***************************************************************************)
(* Properties of the channel.                                              *)
(***************************************************************************)
IsPrefix(a, b) == Len(a) <= Len(b) /\ \A i \in 1..Len(a) : a[i] = b[i]

\* the samples pull returned, in order
pulled == LET got == SelectSeq(taken, LAMBDA x : x.seen)
          IN [k \in 1..Len(got) |-> got[k].id]

\* C1 as stated: the samples obtained through pull form a prefix of the samples
\* accepted by push, and the consumer never reads a slot of a push in progress.
C1_PulledIsPrefixOfAccepted ==
  /\ IsPrefix(pulled, accepted)
  /\ ~readUnwritten

\* C1 (amended): what leaves the channel through pull or skip follows the
\* accepted samples position by position: the i-th sample taken is the i-th
\* sample accepted whenever pull returned it (skip discards it unseen), so
\* nothing accepted is duplicated or reordered and nothing is lost but to skip;
\* the samples a pull or peek has copied so far are the accepted ones at the
\* read position (plus peek's offset); and no read hits a slot of a push that
\* has not yet stored writeIndex.
C1_TakenFollowsAccepted ==
  /\ Len(taken) <= Len(accepted)
  /\ \A i \in 1..Len(taken) : taken[i].seen => taken[i].id = accepted[i]
  /\ (cOp = "pull" /\ cPc \in {"read", "store"}) =>
        \A j \in 1..Len(cOut) :
           /\ Len(taken) + j <= Len(accepted)
           /\ cOut[j] = accepted[Len(taken) + j]
  /\ (cOp = "peek" /\ cPc \in {"read", "idle"}) =>
        \A j \in 1..Len(cOut) :
           /\ Len(taken) + cOffset + j <= Len(accepted)
           /\ cOut[j] = accepted[Len(taken) + cOffset + j]
  /\ ~readUnwritten

\* C1 witness: a pull has copied a sample, after an earlier skip, while a push
\* that has written a sample has not yet stored writeIndex.
C1_Witness ==
  /\ cOp = "pull" /\ cPc = "store" /\ Len(cOut) >= 1
  /\ pPc \in {"write", "store"} /\ pI >= 1
  /\ \E i \in 1..Len(taken) : taken[i] = Skipped

\* C2: availableRead() + availableWrite() == capacity - 1 in every state, for
\* RingBuffer.availableWrite and for the worklet's own getAvailableWrite.
C2_Conservation ==
  /\ availableRead(writeIndex, readIndex, capacity)
       + availableWrite(writeIndex, readIndex, capacity) = capacity - 1
  /\ availableRead(writeIndex, readIndex, capacity)
       + getAvailableWrite(writeIndex, readIndex, capacity) = capacity - 1

\* C2 witness: both sides are between calls and the write index has wrapped
\* behind the read index, with samples unread.
C2_Witness ==
  /\ pPc = "idle" /\ cPc = "idle"
  /\ writeIndex < readIndex
  /\ Len(taken) >= 1

\* the samples of the offered batch that the push in hand does not take
droppedOfBatch == { pData[k] : k \in (pToWrite + 1)..Len(pData) }

\* C3: a push writes exactly the first min(availableWrite(), length) samples of
\* its batch, in the slots that follow writeIndex, returns that count, never
\* lets a dropped sample into storage and never writes over an unread sample;
\* into a full channel (availableWrite() = 0) it writes nothing and returns 0.
C3_OverflowPolicy ==
  /\ pPc \in {"loadW", "write", "store", "idle"} =>
        /\ pToWrite = Min(offeredAvail, Len(pData))
        /\ \A slot \in 0..(capacity - 1) : storage[slot] \notin droppedOfBatch
  /\ pPc \in {"loadW", "write", "store"} =>
        offeredAvail <= capacity - 1 - unread
  /\ pPc = "store" =>
        \A k \in 0..(pToWrite - 1) :
           storage[(pWriteIndex + k) % capacity] = pData[k + 1]
  /\ pPc = "idle" =>
        /\ pRet = pToWrite
        /\ pRet <= Len(accepted)
        /\ SubSeq(accepted, Len(accepted) - pRet + 1, Len(accepted))
             = SubSeq(pData, 1, pRet)
  /\ ~overwroteUnread

\* C3 witness: a push of a batch longer than the room left has returned, having
\* written part of the batch.
C3_Witness ==
  /\ pPc = "idle"
  /\ pRet >= 1
  /\ pRet < Len(pData)
  /\ pRet = offeredAvail

\* C4: both indices stay in [0, capacity), between 0 and capacity - 1 samples
\* are unread and availableRead() counts them, the indices are equal exactly
\* when nothing is unread, and no storage access leaves [0, capacity).
C4_IndexInvariant ==
  /\ writeIndex \in 0..(capacity - 1)
  /\ readIndex \in 0..(capacity - 1)
  /\ unread \in 0..(capacity - 1)
  /\ availableRead(writeIndex, readIndex, capacity) = unread
  /\ (writeIndex = readIndex) <=> (unread = 0)
  /\ ~badAccess

\* C4 witness: the channel is full (capacity - 1 unread) with the write index
\* wrapped behind the read index.
C4_Witness ==
  /\ capacity >= 3
  /\ unread = capacity - 1
  /\ writeIndex < readIndex

\* the steps of producer-side code and of consumer-side code
ProducerSide == ProducerStep \/ WorkletClearWrite \/ WorkletClearRead
ConsumerSide == ConsumerStep \/ ReaderResetWrite \/ ReaderResetRead

\* C5: no step of producer-side code changes readIndex and no step of
\* consumer-side code changes writeIndex, clear and reset included.
C5_EachSideStoresOwnIndex ==
  [][ /\ ProducerSide => readIndex' = readIndex
      /\ ConsumerSide => writeIndex' = writeIndex ]_vars

(***************************************************************************)
(* NoteDecoder.  A probability is a level in 0..MaxLevel and a time is a   *)
(* number of samples, so frame frameIndex of a window that starts at       *)
(* baseTimestamp has the time baseTimestamp + frameIndex * hopSize.  The   *)
(* loop over the 88 keys treats every key alike and a key's iteration      *)
(* touches only that key's entry of the Map; the model follows the lowest  *)
(* and the highest key.                                                    *)
(***************************************************************************)
Levels == 0..MaxLevel

\* the pitch indices followed, in loop order
PitchSeq == <<0, NUM_PIANO_KEYS - 1>>
Pitches == {PitchSeq[i] : i \in 1..Len(PitchSeq)}

midiNoteOf(pitch) == pitch + PIANO_MIN_MIDI

\* onsetProbabilities === null
Null == [pitch \in Pitches |-> -1]

\* const frameTime = baseTimestamp + (frameIndex * this.hopSize) / this.sampleRate
frameTime_NoHop(frameIndex, baseTimestamp) == baseTimestamp + frameIndex
frameTimeOf(frameIndex, baseTimestamp) == baseTimestamp + frameIndex * hopSize

\* Math.round(velocityEstimate * 127), velocityEstimate being level / MaxLevel
velocityOf(velocityEstimate) ==
  (2 * velocityEstimate * 127 + MaxLevel) \div (2 * MaxLevel)

\* probability < this.offsetThreshold
IsOffset_AtOnset(probability) == probability < onsetThreshold
IsOffset(probability) == probability < offsetThreshold

\* onsetProb >= this.onsetThreshold || probability >= this.onsetThreshold
IsOnset(onsetProb, probability) ==
  onsetProb >= onsetThreshold \/ probability >= onsetThreshold

\* duration >= this.minDurationSeconds
LongEnough_Always(duration) == TRUE
LongEnough(duration) == duration >= minDurationSeconds

\* the DetectedNote pushed, had it been left marked as sounding
DetectedNoteOf_StillActive(state, endTime) ==
  [pitch      |-> state.pitch,
   startTime  |-> state.startTime,
   endTime    |-> endTime,
   duration   |-> endTime - state.startTime,
   velocity   |-> velocityOf(state.velocityEstimate),
   confidence |-> state.peakProbability,
   isActive   |-> TRUE]

\* the DetectedNote pushed when an active note ends at endTime
DetectedNoteOf(state, endTime) ==
  [pitch      |-> state.pitch,
   startTime  |-> state.startTime,
   endTime    |-> endTime,
   duration   |-> endTime - state.startTime,
   velocity   |-> velocityOf(state.velocityEstimate),
   confidence |-> state.peakProbability,
   isActive   |-> FALSE]

\* Map.has, Map.get, Map.delete, and Map.set of a key that is not in the Map
has(active, midiNote) == \E i \in 1..Len(active) : active[i].pitch = midiNote
indexOf(active, midiNote) ==
  CHOOSE i \in 1..Len(active) : active[i].pitch = midiNote
get(active, midiNote) == active[indexOf(active, midiNote)]
delete(active, midiNote) ==
  LET Other(state) == state.pitch /= midiNote IN SelectSeq(active, Other)
set(active, state) == Append(active, state)

\* the body of the loop over pitch; acc is [active, notes] so far
pitchStep(acc, pitch, frameProbabilities, onsetProbabilities, frameIndex, frameTime) ==
  LET midiNote == midiNoteOf(pitch)
      probability == frameProbabilities[pitch]
      onsetProb == IF onsetProbabilities /= Null
                     THEN onsetProbabilities[pitch] ELSE probability
      isActive == has(acc.active, midiNote)
  IN IF isActive
       THEN IF IsOffset(probability)
              THEN LET activeNote == get(acc.active, midiNote)
                       duration == frameTime - activeNote.startTime
                   IN [active |-> delete(acc.active, midiNote),
                       notes  |-> IF LongEnough(duration)
                                    THEN Append(acc.notes,
                                                DetectedNoteOf(activeNote, frameTime))
                                    ELSE acc.notes]
              ELSE LET activeNote == get(acc.active, midiNote)
                   IN [active |-> [acc.active EXCEPT
                                     ![indexOf(acc.active, midiNote)].peakProbability =
                                       Max(probability, activeNote.peakProbability)],
                       notes  |-> acc.notes]
       ELSE IF IsOnset(onsetProb, probability)
              THEN [active |-> set(acc.active,
                                       [pitch            |-> midiNote,
                                        startTime        |-> frameTime,
                                        startFrame       |-> frameIndex,
                                        peakProbability  |-> probability,
                                        velocityEstimate |-> onsetProb]),
                    notes  |-> acc.notes]
              ELSE acc

RECURSIVE pitchLoop(_, _, _, _, _, _)
pitchLoop(acc, i, frameProbabilities, onsetProbabilities, frameIndex, frameTime) ==
  IF i > Len(PitchSeq)
    THEN acc
    ELSE pitchLoop(pitchStep(acc, PitchSeq[i], frameProbabilities,
                             onsetProbabilities, frameIndex, frameTime),
                   i + 1, frameProbabilities, onsetProbabilities,
                   frameIndex, frameTime)

\* processFrame: the Map afterwards and the completedNotes returned
processFrame(active, frameProbabilities, onsetProbabilities, frameIndex, baseTimestamp) ==
  pitchLoop([active |-> active, notes |-> <<>>], 1, frameProbabilities,
            onsetProbabilities, frameIndex,
            frameTimeOf(frameIndex, baseTimestamp))

\* the forEach of closeAllNotes: a closed note for each state long enough
closedNotesOf(active, endTime) ==
  LET Kept(state) == LongEnough(endTime - state.startTime)
      kept == SelectSeq(active, Kept)
  IN [i \in 1..Len(kept) |-> DetectedNoteOf(kept[i], endTime)]

\* closeAllNotes: the Map afterwards and the closedNotes returned
closeAllNotes_NoClear(active, endTime) ==
  [active |-> active, notes |-> closedNotesOf(active, endTime)]
closeAllNotes(active, endTime) ==
  [active |-> NoNotes, notes |-> closedNotesOf(active, endTime)]

(***************************************************************************)
(* Observation of the decoder: the frames of one pitch, followed through   *)
(* the two shapes of trace the properties speak of.  The traced pitch is   *)
(* the first of PitchSeq; a and b, s and e are frame indices.              *)
(***************************************************************************)
tracedPitch == PitchSeq[1]
tracedNote == midiNoteOf(tracedPitch)

NoteSpan(note) ==
  [pitch |-> note.pitch, startTime |-> note.startTime,
   endTime |-> note.endTime, duration |-> note.duration]

spansOf(notes) == [i \in 1..Len(notes) |-> NoteSpan(notes[i])]

\* "low" below onsetThreshold so far; "high" since frame a, never below
\* offsetThreshold (dip: some frame since was below onsetThreshold); "fell"
\* below offsetThreshold at frame b and below onsetThreshold since; "off"
\* any other trace.
nextTrace6(t, probability, frameIndex, plain) ==
  IF ~plain \/ t.phase = "off"
    THEN [t EXCEPT !.phase = "off"]
    ELSE CASE t.phase = "low" ->
                IF probability >= onsetThreshold
                  THEN [t EXCEPT !.phase = "high", !.a = frameIndex]
                  ELSE t
           [] t.phase = "high" ->
                IF probability < offsetThreshold
                  THEN [t EXCEPT !.phase = "fell", !.b = frameIndex]
                  ELSE [t EXCEPT !.dip = t.dip \/ probability < onsetThreshold]
           [] t.phase = "fell" ->
                IF probability < onsetThreshold
                  THEN t
                  ELSE [t EXCEPT !.phase = "off"]

\* "zeros" every pitch 0 so far; "high" the traced pitch positive and at
\* least onsetThreshold since frame s, the others 0 (aboveOffset: no high
\* frame was below offsetThreshold); "tail" every pitch 0 again since frame e;
\* "off" any other trace.
nextTrace8(t, frameProbabilities, frameIndex, plain) ==
  LET probability == frameProbabilities[tracedPitch]
      othersZero == \A pitch \in Pitches \ {tracedPitch} :
                      frameProbabilities[pitch] = 0
      isHigh == probability > 0 /\ probability >= onsetThreshold
  IN IF ~plain \/ ~othersZero \/ t.phase = "off"
       THEN [t EXCEPT !.phase = "off"]
       ELSE CASE t.phase = "zeros" ->
                   IF probability = 0 THEN t
                   ELSE IF isHigh
                     THEN [t EXCEPT !.phase = "high", !.s = frameIndex,
                                    !.aboveOffset = probability >= offsetThreshold]
                     ELSE [t EXCEPT !.phase = "off"]
              [] t.phase = "high" ->
                   IF probability = 0
                     THEN [t EXCEPT !.phase = "tail", !.e = frameIndex]
                   ELSE IF isHigh
                     THEN [t EXCEPT !.aboveOffset =
                                      t.aboveOffset /\ probability >= offsetThreshold]
                     ELSE [t EXCEPT !.phase = "off"]
              [] t.phase = "tail" ->
                   IF probability = 0 THEN t ELSE [t EXCEPT !.phase = "off"]

(***************************************************************************)
(* A decoder on its own: built with any thresholds and minimum duration    *)
(* (the constructor and setThresholds check nothing), then fed the frames  *)
(* 0, 1, 2, ... of one window and force-closed once, at any time.          *)
(***************************************************************************)
InitDecoder ==
  /\ activeNotes = NoNotes
  /\ onsetThreshold \in Levels
  /\ offsetThreshold \in Levels
  /\ minDurationSeconds \in 0..MaxMinDuration
  /\ completedNotes = <<>>
  /\ frameCount = 0
  /\ emitted = <<>>
  /\ trace6 = [phase |-> "low", a |-> 0, b |-> 0, dip |-> FALSE]
  /\ trace8 = [phase |-> "zeros", s |-> 0, e |-> 0, aboveOffset |-> TRUE]
  /\ lastClose = [called |-> FALSE, pitches |-> {}]
  /\ lastSet = [called |-> FALSE, onset |-> 0, offset |-> 0, used |-> FALSE]

\* the channel is not used
ChannelUnused == ChannelOf(1)

ProcessFrameCall(frameProbabilities, onsetProbabilities) ==
  /\ ~lastClose.called
  /\ frameCount < MaxFrames
  /\ LET r == processFrame(activeNotes, frameProbabilities, onsetProbabilities,
                           frameCount, 0)
     IN /\ activeNotes' = r.active
        /\ completedNotes' = r.notes
        /\ emitted' = emitted \o spansOf(r.notes)
  /\ frameCount' = frameCount + 1
  /\ trace6' = nextTrace6(trace6, frameProbabilities[tracedPitch], frameCount,
                          onsetProbabilities = Null)
  /\ trace8' = nextTrace8(trace8, frameProbabilities, frameCount,
                          onsetProbabilities = Null)
  /\ lastClose' = lastClose
  /\ lastSet' = [lastSet EXCEPT !.used = lastSet.called]
  /\ UNCHANGED <<qVars, lgVars, ctlVars, onsetThreshold, offsetThreshold, minDurationSeconds, chanVars,
                 wkVars>>

CloseAllNotesCall(endTime) ==
  /\ ~lastClose.called
  /\ LET r == closeAllNotes(activeNotes, endTime)
     IN /\ activeNotes' = r.active
        /\ completedNotes' = r.notes
        /\ emitted' = emitted \o spansOf(r.notes)
  /\ lastClose' = [called  |-> TRUE,
                   pitches |-> {activeNotes[i].pitch : i \in 1..Len(activeNotes)}]
  /\ trace6' = [trace6 EXCEPT !.phase = "off"]
  /\ trace8' = [trace8 EXCEPT !.phase = "off"]
  /\ UNCHANGED <<qVars, lgVars, ctlVars, onsetThreshold, offsetThreshold, minDurationSeconds,
                 frameCount, lastSet, chanVars, wkVars>>

FrameInputs == [Pitches -> Levels]
OnsetInputs == {Null}
\* the forced close comes at the time of some frame
EndTimes == {frameTimeOf(frameIndex, 0) : frameIndex \in 0..MaxFrames}

NextDecoder ==
  \/ \E frameProbabilities \in FrameInputs, onsetProbabilities \in OnsetInputs :
       ProcessFrameCall(frameProbabilities, onsetProbabilities)
  \/ \E endTime \in EndTimes : CloseAllNotesCall(endTime)

\* setThresholds(onset, offset): the two fields afterwards
setThresholds_Swapped(onset, offset) ==
  [onsetThreshold |-> offset, offsetThreshold |-> onset]
setThresholds(onset, offset) ==
  [onsetThreshold |-> onset, offsetThreshold |-> offset]

\* a run of the decoder sets its thresholds at most once
SetThresholdsCall(onset, offset) ==
  /\ ~lastClose.called
  /\ ~lastSet.called
  /\ LET r == setThresholds(onset, offset)
     IN /\ onsetThreshold' = r.onsetThreshold
        /\ offsetThreshold' = r.offsetThreshold
  /\ lastSet' = [called |-> TRUE, onset |-> onset, offset |-> offset,
                 used |-> FALSE]
  /\ trace6' = [trace6 EXCEPT !.phase = "off"]
  /\ trace8' = [trace8 EXCEPT !.phase = "off"]
  /\ UNCHANGED <<qVars, lgVars, ctlVars, activeNotes, minDurationSeconds, completedNotes, frameCount,
                 emitted, lastClose, chanVars, wkVars>>

\* every operation the decoder offers
NextDecoderOps ==
  \/ NextDecoder
  \/ \E onset \in Levels, offset \in Levels : SetThresholdsCall(onset, offset)

InitDecoderAlone ==
  /\ InitDecoder
  /\ ChannelUnused
  /\ WorkerUnused
  /\ QuantizerUnused
  /\ LanguageUnused
  /\ ControlUnused

SpecDecoder == InitDecoderAlone /\ [][NextDecoder]_vars

\* a decoder built with the thresholds the engine sends at INIT
InitDecoderOps ==
  /\ InitDecoder
  /\ onsetThreshold = MaxLevel
  /\ offsetThreshold = 1
  /\ ChannelUnused
  /\ WorkerUnused
  /\ QuantizerUnused
  /\ LanguageUnused
  /\ ControlUnused

SpecDecoderOps == InitDecoderOps /\ [][NextDecoderOps]_vars

(***************************************************************************)
(* AudioProcessor, the processing worker, with the AudioEngine that posts  *)
(* its messages and the microphone that fills the channel.  One action is  *)
(* one task of the worker's event loop: a message handler up to its first  *)
(* await, a firing of the 100 ms interval up to its await, or the          *)
(* continuation of an await.  The channel's operations are taken whole     *)
(* here and only the two indices are followed; what the model computes     *)
(* from a window is any piano roll.                                        *)
(***************************************************************************)
\* Math.floor(PROCESSING_WINDOW_SECONDS * sampleRate)
windowSamples == PROCESSING_WINDOW_SECONDS * sampleRate
\* Math.floor(PROCESSING_HOP_SECONDS * sampleRate), PROCESSING_HOP_SECONDS = 0.5
hopSamples == sampleRate \div 2
\* ringBufferSize: sampleRate * 10
ringBufferSize == sampleRate * 10
\* MelSpectrogramExtractor.extract: the frames of one window
numFrames == (windowSamples - windowSize) \div hopSize + 1
\* Math.floor(numFrames * 0.1)
skipFrames == numFrames \div 10

\* the rows a piano roll is made of here: silence, or every key sounding
WorkerFrames == {[pitch \in Pitches |-> 0], [pitch \in Pitches |-> MaxLevel]}
Rolls == [0..(numFrames - 1) -> WorkerFrames]

\* the loop over frame of runInference; acc is [active, notes] so far
RECURSIVE frameLoop(_, _, _, _)
frameLoop(acc, frame, roll, baseTimestamp) ==
  IF frame >= numFrames - skipFrames
    THEN acc
    ELSE LET r == processFrame(acc.active, roll[frame], Null, frame, baseTimestamp)
         IN frameLoop([active |-> r.active, notes |-> acc.notes \o r.notes],
                      frame + 1, roll, baseTimestamp)

\* the calls awaiting session.run, less the one that resumes
without(pending, call) ==
  [k \in 1..(Len(pending) - 1) |-> IF k < call THEN pending[k] ELSE pending[k + 1]]

\* self.postMessage, as far as it is observed
posting(types) == IF stopped THEN postedSinceStop \cup types ELSE postedSinceStop

chanRest == <<capacity, storage, pLocals, cLocals, nextSample, accepted, taken,
              offeredAvail, badAccess, readUnwritten, overwroteUnread, clears>>
decObs == <<frameCount, emitted, trace6, trace8, lastClose, lastSet>>
thresholds == <<onsetThreshold, offsetThreshold, minDurationSeconds>>

\* the worker module has been loaded and the engine constructed, in a
\* browser with SharedArrayBuffer or one without; the channel is as
\* createRingBufferStorage will make it
InitWorker ==
  /\ ChannelOf(ringBufferSize)
  /\ DecoderUnused
  /\ WorkerAtRest
  /\ sharedArrayBuffer \in BOOLEAN
  /\ QuantizerUnused
  /\ LanguageUnused
  /\ ControlUnused

\* the catch of AudioEngine.initialize: an Error that has a code is thrown
\* again, anything else becomes AUDIO_CONTEXT_FAILED
rethrown(error) ==
  IF error.isError /\ error.code /= ""
    THEN error
    ELSE createError("AUDIO_CONTEXT_FAILED", TRUE)

\* AudioEngine.initialize where typeof SharedArrayBuffer === 'undefined':
\* the throw inside its try, as it leaves its catch
initializeThrows == rethrown(createError("SHARED_BUFFER_UNSUPPORTED", FALSE))

\* AudioEngine.startRecording: initialize() if it has not run, which creates
\* the channel; then posts INIT, then START
startRecording ==
  /\ isInitialized \/ sharedArrayBuffer
  /\ ~isRecording
  /\ recordings < MaxRecordings
  /\ recordings' = recordings + 1
  /\ isInitialized' = TRUE
  /\ sharedBuffer' = TRUE
  /\ thrown' = NoError
  /\ isRecording' = TRUE
  /\ inbox' = inbox \o <<"INIT", "START">>
  /\ UNCHANGED <<qVars, lgVars, sharedArrayBuffer, lastTask, windowLog, lastFrame, chanVars, decVars, initialized, session, demoMode, loading,
                 isRunning, processingInterval, processedSamples, inFlight,
                 captured, stopped, postedSinceStop>>

StartRecording == startRecording /\ UNCHANGED ctlVars

\* AudioEngine.startRecording without SharedArrayBuffer: await
\* this.initialize() throws
StartRecordingThrows ==
  /\ ~isInitialized
  /\ ~sharedArrayBuffer
  /\ recordings < MaxRecordings
  /\ recordings' = recordings + 1
  /\ thrown' = initializeThrows
  /\ UNCHANGED <<qVars, lgVars, ctlVars, sharedArrayBuffer, isInitialized, sharedBuffer,
                 lastTask, windowLog, lastFrame, chanVars, decVars,
                 initialized, session, demoMode, loading, isRunning,
                 processingInterval, processedSamples, inFlight, inbox,
                 isRecording, captured, stopped, postedSinceStop>>

\* useTranscription.stop: AudioEngine.stopRecording posts STOP, then the hook
\* posts STOP
stopRecording ==
  /\ isRecording
  /\ isRecording' = FALSE
  /\ inbox' = inbox \o <<"STOP", "STOP">>
  /\ UNCHANGED <<qVars, lgVars, engVars, lastTask, windowLog, lastFrame, chanVars, decVars, initialized, session, demoMode, loading,
                 isRunning, processingInterval, processedSamples, inFlight,
                 recordings, captured, stopped, postedSinceStop>>

StopRecording == stopRecording /\ UNCHANGED ctlVars

\* AudioRecorderProcessor.process: a render quantum is pushed
Capture ==
  /\ isRecording
  /\ \E n \in 1..MaxBatch :
       /\ captured + n <= MaxCaptured
       /\ captured' = captured + n
       /\ writeIndex' =
            advance(writeIndex,
                    toWriteOf(getAvailableWrite(writeIndex, readIndex, capacity), n),
                    capacity)
  /\ UNCHANGED <<qVars, lgVars, ctlVars, engVars, lastTask, windowLog, lastFrame, readIndex, chanRest, decVars, initialized, session, demoMode,
                 loading, isRunning, processingInterval, processedSamples,
                 inFlight, inbox, isRecording, recordings, stopped,
                 postedSinceStop>>

\* onmessage, case 'INIT': initialize() up to await this.loadModel(...)
HandleInit ==
  /\ inbox /= <<>> /\ Head(inbox) = "INIT"
  /\ inbox' = Tail(inbox)
  /\ initialized' = TRUE
  \* new NoteDecoder(config.onsetThreshold, config.offsetThreshold, ...)
  /\ activeNotes' = NoNotes
  /\ onsetThreshold' = MaxLevel
  /\ offsetThreshold' = 1
  \* minNoteDuration 0.05 s: more than one frame spacing, less than two
  /\ minDurationSeconds' = hopSize + 1
  /\ loading' = loading + 1
  /\ lastTask' = [name |-> "INIT", posted |-> {}]
  /\ UNCHANGED <<qVars, lgVars, ctlVars, engVars, windowLog, lastFrame, chanVars, completedNotes, decObs, session, demoMode, isRunning,
                 processingInterval, processedSamples, inFlight, isRecording,
                 recordings, captured, stopped, postedSinceStop>>

\* loadModel ends, with a session or in its catch; initialize() posts READY
LoadModelEnds ==
  /\ loading > 0
  /\ loading' = loading - 1
  /\ \E loaded \in BOOLEAN :
       IF loaded
         THEN /\ session' = TRUE /\ demoMode' = demoMode
              /\ lastTask' = [name |-> "loaded", posted |-> {"READY"}]
         ELSE /\ session' = session /\ demoMode' = TRUE
              /\ lastTask' = [name |-> "load failed", posted |-> {"READY"}]
  /\ postedSinceStop' = posting({"READY"})
  /\ UNCHANGED <<qVars, lgVars, ctlVars, engVars, windowLog, lastFrame, chanVars, decVars, initialized, isRunning, processingInterval,
                 processedSamples, inFlight, inbox, isRecording, recordings,
                 captured, stopped>>

\* onmessage, case 'START': start()
HandleStart ==
  /\ inbox /= <<>> /\ Head(inbox) = "START"
  /\ inbox' = Tail(inbox)
  /\ IF isRunning \/ ~initialized
       THEN UNCHANGED <<isRunning, processedSamples, activeNotes,
                        processingInterval, stopped, postedSinceStop,
                        lastFrame, windowLog>>
       ELSE /\ isRunning' = TRUE
            /\ processedSamples' = 0
            /\ activeNotes' = NoNotes
            /\ processingInterval' = TRUE
            /\ stopped' = FALSE
            /\ postedSinceStop' = {}
            /\ lastFrame' = [any |-> FALSE, time |-> 0]
            /\ windowLog' = [windowLog EXCEPT !.any = FALSE]
  /\ lastTask' = [name |-> "START", posted |-> {}]
  /\ UNCHANGED <<qVars, lgVars, ctlVars, engVars, chanVars, thresholds, completedNotes, decObs, initialized,
                 session, demoMode, loading, inFlight, isRecording, recordings,
                 captured>>

\* onmessage, case 'STOP': stop()
processorStop ==
  /\ inbox /= <<>> /\ Head(inbox) = "STOP"
  /\ inbox' = Tail(inbox)
  /\ isRunning' = FALSE
  /\ processingInterval' = FALSE
  /\ IF initialized
       THEN LET r == closeAllNotes(activeNotes, processedSamples)
            IN /\ activeNotes' = r.active
               /\ completedNotes' = r.notes
               /\ postedSinceStop' =
                    IF stopped /\ r.notes /= <<>>
                      THEN postedSinceStop \cup {"NOTES_DETECTED"}
                      ELSE postedSinceStop
               /\ lastTask' = [name |-> "STOP", posted |-> IF r.notes /= <<>> THEN {"NOTES_DETECTED"} ELSE {}]
       ELSE /\ UNCHANGED <<activeNotes, completedNotes, postedSinceStop>>
            /\ lastTask' = [name |-> "STOP", posted |-> {}]
  /\ stopped' = TRUE
  /\ UNCHANGED <<qVars, lgVars, engVars, windowLog, lastFrame, chanVars, thresholds, decObs, initialized, session, demoMode,
                 loading, processedSamples, inFlight, isRecording, recordings,
                 captured>>

HandleStop == processorStop /\ UNCHANGED ctlVars

\* what processAudio does to the channel once it has its notes:
\* this.ringBuffer.skip(hopSamples)
skipHop ==
  advance(readIndex,
          toReadOf(availableRead(writeIndex, readIndex, capacity), hopSamples),
          capacity)

\* processAudio, had it gone on as soon as one hop can be read
windowReady_OneHop ==
  /\ initialized
  /\ availableRead(writeIndex, readIndex, capacity) >= hopSamples

\* the guards of processAudio: everything set, and a whole window to peek
windowReady ==
  /\ initialized
  /\ availableRead(writeIndex, readIndex, capacity) >= windowSamples

\* the interval fires with less than a window to read (or before INIT):
\* processAudio returns at one of its guards
TickIdle ==
  /\ processingInterval
  /\ ~windowReady
  /\ lastTask' = [name |-> "tick", posted |-> {}]
  /\ UNCHANGED <<qVars, lgVars, ctlVars, engVars, lastFrame, windowLog, chanVars, decVars, initialized,
                 session, demoMode, loading, isRunning, processingInterval,
                 processedSamples, inFlight, inbox, isRecording, recordings,
                 captured, stopped, postedSinceStop>>

\* the interval fires in demo mode: simulateNoteDetection, no await
TickDemo ==
  /\ processingInterval
  /\ windowReady
  /\ demoMode
  /\ \E loud \in BOOLEAN :
       \E types \in {{"BUFFER_HEALTH"} \cup
                     IF loud THEN {"PIANO_ROLL_UPDATE", "NOTES_DETECTED"}
                             ELSE {}} :
         /\ postedSinceStop' = posting(types)
         /\ lastTask' = [name |-> "tick", posted |-> types]
  /\ windowLog' = [windowLog EXCEPT !.any = TRUE, !.start = readIndex]
  /\ readIndex' = skipHop
  /\ processedSamples' = processedSamples + hopSamples
  /\ UNCHANGED <<qVars, lgVars, ctlVars, engVars, lastFrame, writeIndex, chanRest, decVars, initialized, session, demoMode,
                 loading, isRunning, processingInterval, inFlight, inbox,
                 isRecording, recordings, captured, stopped>>

\* the interval fires while the model is still loading: runInference returns
\* [] at its first line
TickNoSession ==
  /\ processingInterval
  /\ windowReady
  /\ ~demoMode
  /\ ~session
  /\ postedSinceStop' = posting({"BUFFER_HEALTH"})
  /\ lastTask' = [name |-> "tick", posted |-> {"BUFFER_HEALTH"}]
  /\ windowLog' = [windowLog EXCEPT !.any = TRUE, !.start = readIndex]
  /\ readIndex' = skipHop
  /\ processedSamples' = processedSamples + hopSamples
  /\ UNCHANGED <<qVars, lgVars, ctlVars, engVars, lastFrame, writeIndex, chanRest, decVars, initialized, session, demoMode,
                 loading, isRunning, processingInterval, inFlight, inbox,
                 isRecording, recordings, captured, stopped>>

\* processAudio, had it looked for a session before it looks at demoMode
TickBegin_AnyMode ==
  /\ processingInterval
  /\ windowReady
  /\ session
  /\ inFlight < MaxInFlight
  /\ inFlight' = inFlight + 1
  /\ postedSinceStop' = posting({"BUFFER_HEALTH"})
  /\ lastTask' = [name |-> "tick", posted |-> {"BUFFER_HEALTH"}]
  /\ windowLog' = [windowLog EXCEPT !.pending = Append(@, readIndex)]
  /\ UNCHANGED <<qVars, lgVars, ctlVars, engVars, lastFrame, chanVars, decVars, initialized, session,
                 demoMode, loading, isRunning, processingInterval,
                 processedSamples, inbox, isRecording, recordings, captured,
                 stopped>>

\* the interval fires: processAudio up to await this.session.run(feeds)
TickBegin ==
  /\ processingInterval
  /\ windowReady
  /\ ~demoMode
  /\ session
  /\ inFlight < MaxInFlight
  /\ inFlight' = inFlight + 1
  /\ postedSinceStop' = posting({"BUFFER_HEALTH"})
  /\ lastTask' = [name |-> "tick", posted |-> {"BUFFER_HEALTH"}]
  /\ windowLog' = [windowLog EXCEPT !.pending = Append(@, readIndex)]
  /\ UNCHANGED <<qVars, lgVars, ctlVars, engVars, lastFrame, chanVars, decVars, initialized, session, demoMode, loading,
                 isRunning, processingInterval, processedSamples, inbox,
                 isRecording, recordings, captured, stopped>>

\* session.run resolves: the rest of runInference and of processAudio
inferenceReturns(roll) ==
  /\ inFlight > 0
  /\ inFlight' = inFlight - 1
  /\ LET r == frameLoop([active |-> activeNotes, notes |-> <<>>], skipFrames,
                        roll, processedSamples)
     IN /\ activeNotes' = r.active
        /\ completedNotes' = r.notes
        /\ \E types \in {{"PIANO_ROLL_UPDATE"} \cup
                          IF r.notes /= <<>> THEN {"NOTES_DETECTED"} ELSE {}} :
             /\ postedSinceStop' = posting(types)
             /\ lastTask' = [name |-> "run", posted |-> types]
  /\ \E call \in 1..Len(windowLog.pending) :
       windowLog' = [pending |-> without(windowLog.pending, call),
                     any     |-> TRUE,
                     start   |-> windowLog.pending[call]]
  /\ lastFrame' =
       IF skipFrames < numFrames - skipFrames
         THEN [any  |-> TRUE,
               time |-> frameTimeOf(numFrames - skipFrames - 1, processedSamples)]
         ELSE lastFrame
  /\ readIndex' = skipHop
  /\ processedSamples' = processedSamples + hopSamples
  /\ UNCHANGED <<qVars, lgVars, engVars, writeIndex, chanRest, thresholds, decObs, initialized, session,
                 demoMode, loading, isRunning, processingInterval, inbox,
                 isRecording, recordings, captured, stopped>>

TickEnd(roll) == inferenceReturns(roll) /\ UNCHANGED ctlVars

\* processAudio, had the error come only after the frames were decoded
TickFails_Decoded ==
  /\ inFlight > 0
  /\ inFlight' = inFlight - 1
  /\ \E roll \in Rolls :
       \E r \in {frameLoop([active |-> activeNotes, notes |-> <<>>],
                           skipFrames, roll, processedSamples)} :
         /\ activeNotes' = r.active
         /\ completedNotes' = r.notes
  /\ postedSinceStop' = posting({"ERROR"})
  /\ lastTask' = [name |-> "run", posted |-> {"ERROR"}]
  /\ \E call \in 1..Len(windowLog.pending) :
       windowLog' = [windowLog EXCEPT !.pending = without(@, call)]
  /\ UNCHANGED <<qVars, lgVars, ctlVars, engVars, lastFrame, chanVars, thresholds, decObs, initialized,
                 session, demoMode, loading, isRunning, processingInterval,
                 processedSamples, inbox, isRecording, recordings, captured,
                 stopped>>

\* session.run rejects: the catch of processAudio
TickFails ==
  /\ inFlight > 0
  /\ inFlight' = inFlight - 1
  /\ postedSinceStop' = posting({"ERROR"})
  /\ lastTask' = [name |-> "run", posted |-> {"ERROR"}]
  /\ \E call \in 1..Len(windowLog.pending) :
       windowLog' = [windowLog EXCEPT !.pending = without(@, call)]
  /\ UNCHANGED <<qVars, lgVars, ctlVars, engVars, lastFrame, chanVars, decVars, initialized, session, demoMode, loading,
                 isRunning, processingInterval, processedSamples, inbox,
                 isRecording, recordings, captured, stopped>>

NextWorker ==
  \/ StartRecording
  \/ StartRecordingThrows
  \/ StopRecording
  \/ Capture
  \/ HandleInit
  \/ LoadModelEnds
  \/ HandleStart
  \/ HandleStop
  \/ TickIdle
  \/ TickDemo
  \/ TickNoSession
  \/ TickBegin
  \/ \E roll \in Rolls : TickEnd(roll)
  \/ TickFails

SpecWorker == InitWorker /\ [][NextWorker]_vars

(***************************************************************************)
(* Properties of the decoder.                                              *)
(***************************************************************************)
MidiNotes == {midiNoteOf(pitch) : pitch \in Pitches}

\* the notes emitted so far for one key
notesFor(midiNote) ==
  LET Same(span) == span.pitch = midiNote IN SelectSeq(emitted, Same)

\* the one note expected for the traced key from frame first to frame last
spanBetween(first, last) ==
  [pitch     |-> tracedNote,
   startTime |-> first * hopSize,
   endTime   |-> last * hopSize,
   duration  |-> (last - first) * hopSize]

\* C6: a trace of one pitch that rises to at least onsetThreshold at frame a,
\* stays at or above offsetThreshold (dipping below onsetThreshold or not) and
\* falls below offsetThreshold at frame b, at least minNoteDuration later,
\* has yielded exactly one note, from frame a to frame b; while the pitch is
\* still sounding no note has been emitted for it, so a dip splits nothing.
C6_Hysteresis ==
  /\ trace6.phase = "high" => notesFor(tracedNote) = <<>>
  /\ (trace6.phase = "fell"
        /\ (trace6.b - trace6.a) * hopSize >= minDurationSeconds)
       => notesFor(tracedNote) = <<spanBetween(trace6.a, trace6.b)>>

\* C6 witness: such a trace with a dip, of a positive minimum duration, has
\* ended and its one note is out.
C6_Witness ==
  /\ trace6.phase = "fell"
  /\ trace6.dip
  /\ minDurationSeconds > 0
  /\ (trace6.b - trace6.a) * hopSize >= minDurationSeconds
  /\ Len(notesFor(tracedNote)) = 1

\* C7: whenever processFrame finds an ACTIVE pitch below offsetThreshold at a
\* frame less than minNoteDuration after the onset frame, the call returns no
\* note for that pitch and the pitch is INACTIVE afterwards.
C7_ShortSpanDiscarded ==
  [][ \A frameProbabilities \in FrameInputs, onsetProbabilities \in OnsetInputs :
        ProcessFrameCall(frameProbabilities, onsetProbabilities) =>
          \A pitch \in Pitches :
            ( /\ has(activeNotes, midiNoteOf(pitch))
              /\ frameProbabilities[pitch] < offsetThreshold
              /\ frameTimeOf(frameCount, 0)
                   - get(activeNotes, midiNoteOf(pitch)).startTime
                     < minDurationSeconds )
            => /\ ~has(activeNotes', midiNoteOf(pitch))
               /\ \A i \in 1..Len(completedNotes') :
                    completedNotes'[i].pitch /= midiNoteOf(pitch) ]_vars

\* C7 witness: the traced pitch went ACTIVE and fell below offsetThreshold
\* sooner than the minimum duration; nothing was emitted and it is INACTIVE.
C7_Witness ==
  /\ trace6.phase = "fell"
  /\ (trace6.b - trace6.a) * hopSize < minDurationSeconds
  /\ notesFor(tracedNote) = <<>>
  /\ ~has(activeNotes, tracedNote)

\* C8 as stated: after a trace of the traced pitch that is 0, then at least
\* onsetThreshold for the n frames s .. e-1, then 0 from frame e on, with
\* n x hopSize >= minNoteDuration and every other pitch 0 throughout, exactly
\* one note has been emitted, for the traced pitch, from frame s to frame e
\* and of duration n x hopSize.
C8_OneNotePerBurst ==
  (trace8.phase = "tail"
     /\ (trace8.e - trace8.s) * hopSize >= minDurationSeconds)
    => emitted = <<spanBetween(trace8.s, trace8.e)>>

\* C8 amended: the same, for positive thresholds and high frames that are not
\* below offsetThreshold.
C8_OneNotePerBurstAboveOffset ==
  (trace8.phase = "tail"
     /\ (trace8.e - trace8.s) * hopSize >= minDurationSeconds
     /\ onsetThreshold > 0
     /\ offsetThreshold > 0
     /\ trace8.aboveOffset)
    => emitted = <<spanBetween(trace8.s, trace8.e)>>

\* C8 witness: a burst of two or more high frames after a zero frame has
\* ended and exactly its note is out.
C8_Witness ==
  /\ trace8.phase = "tail"
  /\ trace8.s >= 1
  /\ trace8.e - trace8.s >= 2
  /\ (trace8.e - trace8.s) * hopSize >= minDurationSeconds
  /\ onsetThreshold > 0
  /\ offsetThreshold > 0
  /\ trace8.aboveOffset
  /\ emitted = <<spanBetween(trace8.s, trace8.e)>>

\* C9: once the worker has handled STOP, and until a START takes effect, no
\* interval is scheduled, the decoder has no ACTIVE pitch and no
\* NOTES_DETECTED message has been posted after the STOP's forced-close
\* message, whether or not a processAudio call was awaiting inference when
\* the STOP was handled.
C9_StopIsFinal ==
  stopped =>
    /\ ~processingInterval
    /\ activeNotes = NoNotes
    /\ "NOTES_DETECTED" \notin postedSinceStop

\* C10: closeAllNotes(endTime) leaves no pitch ACTIVE and returns, for each
\* key, one note ending at endTime if the key was ACTIVE with endTime -
\* startTime >= minNoteDuration and no note otherwise; it reads no
\* probability.
C10_ForcedClose ==
  [][ \A endTime \in EndTimes :
        CloseAllNotesCall(endTime) =>
          /\ activeNotes' = NoNotes
          /\ \A i \in 1..Len(completedNotes') :
               /\ completedNotes'[i].endTime = endTime
               /\ has(activeNotes, completedNotes'[i].pitch)
               /\ completedNotes'[i].startTime =
                    get(activeNotes, completedNotes'[i].pitch).startTime
          /\ \A midiNote \in MidiNotes :
               Cardinality({i \in 1..Len(completedNotes') :
                              completedNotes'[i].pitch = midiNote})
                 = IF /\ has(activeNotes, midiNote)
                      /\ endTime - get(activeNotes, midiNote).startTime
                           >= minDurationSeconds
                     THEN 1 ELSE 0 ]_vars

\* C10 witness: closeAllNotes found two pitches ACTIVE, returned a note for
\* one of them only, and left none ACTIVE.
C10_Witness ==
  /\ lastClose.called
  /\ Cardinality(lastClose.pitches) = 2
  /\ Len(completedNotes) = 1
  /\ activeNotes = NoNotes

(***************************************************************************)
(* Properties of the worker's decoding across ticks.                       *)
(***************************************************************************)
\* C11: between a START that takes effect and the STOP, the frame times
\* handed to processFrame never go back: the first frame a processAudio call
\* hands over is not earlier than the last frame handed over before it
\* (within one call the times rise with the frame index).
C11_FramesInTimeOrder ==
  [][ ( /\ \E roll \in Rolls : TickEnd(roll)
        /\ isRunning
        /\ lastFrame.any
        /\ skipFrames < numFrames - skipFrames )
      => frameTimeOf(skipFrames, processedSamples) >= lastFrame.time ]_vars

(***************************************************************************)
(* Properties of the thresholds.                                           *)
(***************************************************************************)
\* C12: the decoder never processes a frame with offsetThreshold above
\* onsetThreshold, whether the pair came from the constructor (INIT) or from
\* setThresholds (SET_THRESHOLD).
C12_ThresholdsOrdered ==
  [][ (\E frameProbabilities \in FrameInputs, onsetProbabilities \in OnsetInputs :
         ProcessFrameCall(frameProbabilities, onsetProbabilities))
      => offsetThreshold <= onsetThreshold ]_vars

\* C13: setThresholds(onset, offset) sets the two thresholds to its arguments
\* and changes nothing else: not the active notes, not the notes returned or
\* emitted before, not the minimum duration; and a frame processed after it
\* is processed with the thresholds last set.
C13_SetThresholdsFrame ==
  [][ /\ \A onset \in Levels, offset \in Levels :
           SetThresholdsCall(onset, offset) =>
             /\ onsetThreshold' = onset
             /\ offsetThreshold' = offset
             /\ activeNotes' = activeNotes
             /\ completedNotes' = completedNotes
             /\ emitted' = emitted
             /\ minDurationSeconds' = minDurationSeconds
      /\ ( /\ lastSet.called
           /\ \E frameProbabilities \in FrameInputs, onsetProbabilities \in OnsetInputs :
                ProcessFrameCall(frameProbabilities, onsetProbabilities) )
         => /\ onsetThreshold = lastSet.onset
            /\ offsetThreshold = lastSet.offset ]_vars

\* C13 witness: thresholds were set while a pitch was ACTIVE and a note was
\* out, to a pair unlike the one in force, and a frame was processed since.
C13_Witness ==
  /\ lastSet.called
  /\ lastSet.used
  /\ lastSet.onset /= lastSet.offset
  /\ emitted /= <<>>
  /\ activeNotes /= NoNotes


\* ---------------------------------------------------------------------------
\* BeatDetector
\* ---------------------------------------------------------------------------
Abs(x) == IF x < 0 THEN 0 - x ELSE x

\* Math.round of the quotient n / d, d > 0: the nearest whole number, a tie
\* going up
Round(n, d) == (2 * n + d) \div (2 * d)

\* addOnset: push, then drop the oldest onset beyond maxOnsets
addOnset(onsets, time) ==
  LET pushed == Append(onsets, time)
  IN  IF Len(pushed) > maxOnsets THEN Tail(pushed) ELSE pushed

\* the bounds of a usable inter-onset interval, 0.2 s and 2.0 s, and the
\* histogram's 0.05 s bin
minInterval == OneSecond \div 5

maxInterval == 2 * OneSecond

binSize == OneSecond \div 20

intervals(onsets) == [i \in 1..(Len(onsets) - 1) |-> onsets[i + 1] - onsets[i]]

validIntervals(onsets) ==
  SelectSeq(intervals(onsets), LAMBDA i : i >= minInterval /\ i <= maxInterval)

\* the bin as the whole bins below the interval
binOf_Floor(interval) == interval \div binSize

binOf(interval) == Round(interval, binSize)

\* the histogram Map as its entries in insertion order
RECURSIVE histogramOf(_, _)
histogramOf(valid, histogram) ==
  IF valid = <<>> THEN histogram
  ELSE LET bin == binOf(Head(valid))
           at  == {k \in 1..Len(histogram) : histogram[k].bin = bin}
       IN  histogramOf(Tail(valid),
             IF at = {}
             THEN Append(histogram, [bin |-> bin, count |-> 1])
             ELSE [k \in 1..Len(histogram) |->
                     IF k \in at
                     THEN [histogram[k] EXCEPT !.count = @ + 1]
                     ELSE histogram[k]])

\* histogram.forEach: the first entry with the greatest count wins
RECURSIVE dominantOf(_, _, _)
dominantOf(histogram, maxCount, dominantBin) ==
  IF histogram = <<>> THEN dominantBin
  ELSE IF Head(histogram).count > maxCount
       THEN dominantOf(Tail(histogram), Head(histogram).count, Head(histogram).bin)
       ELSE dominantOf(Tail(histogram), maxCount, dominantBin)

\* the two while loops on bpm = num / den; a dominant bin is never 0, since a
\* valid interval is at least four bins long
RECURSIVE doubling(_, _)
doubling(num, den) == IF num < 60 * den THEN doubling(2 * num, den) ELSE num

RECURSIVE halving(_, _)
halving(num, den) == IF num > 180 * den THEN halving(num, 2 * den) ELSE den

normalize_NoHalving(num, den) == Round(doubling(num, den), den)

normalize(num, den) ==
  LET doubled == doubling(num, den)
  IN  Round(doubled, halving(doubled, den))

\* bpm = 60 / (dominantBin * binSize): 60 s over the interval in seconds
estimateBPM(onsets) ==
  IF Len(onsets) < 4 THEN 120
  ELSE LET valid == validIntervals(onsets)
       IN  IF Len(valid) = 0 THEN 120
           ELSE LET dominantBin == dominantOf(histogramOf(valid, <<>>), 0, 0)
                IN  normalize(60 * OneSecond, dominantBin * binSize)


\* ---------------------------------------------------------------------------
\* NoteQuantizer
\* ---------------------------------------------------------------------------
\* (timeSeconds * bpm) / 60, in units of 1/57600 beat; cfg and onsets are the
\* quantizer's config and its detector's history
timeToBeat_AutoBPM(timeSeconds, cfg, onsets) == timeSeconds * estimateBPM(onsets)

timeToBeat(timeSeconds, cfg, onsets) == timeSeconds * cfg.bpm

\* snapToGrid without the triplet grid
snapToGrid_GridOnly(beat, cfg) ==
  Round(beat, cfg.minQuantization) * cfg.minQuantization

snapToGrid(beat, cfg) ==
  LET gridUnit == cfg.minQuantization
      gridPosition == Round(beat, gridUnit)
      snappedBeat == gridPosition * gridUnit
      offset == Abs(beat - snappedBeat)
      \* offset <= gridUnit * snapTolerance, snapTolerance in tenths
      within == 10 * offset <= gridUnit * cfg.snapTolerance
      tripletGrid == (gridUnit * 2) \div 3
      tripletPosition == Round(beat, tripletGrid)
      snappedTriplet == tripletPosition * tripletGrid
      tripletOffset == Abs(beat - snappedTriplet)
  IN  IF within THEN snappedBeat
      ELSE IF cfg.detectTriplets /\ tripletOffset < offset THEN snappedTriplet
      ELSE snappedBeat

getDurationBeats(type) ==
  LET found == {k \in 1..Len(DURATION_GRID) : DURATION_GRID[k].type = type}
  IN  IF found = {} THEN OneBeat
      ELSE DURATION_GRID[CHOOSE k \in found : \A l \in found : k <= l].beats

\* the closest-fit loop over DURATION_GRID from entry k on
RECURSIVE fitLoop(_, _, _, _)
fitLoop(k, durationBeats, bestFit, minDiff) ==
  IF k > Len(DURATION_GRID) THEN bestFit
  ELSE LET duration == DURATION_GRID[k]
           diff == Abs(durationBeats - duration.beats)
           fit1 == IF diff < minDiff THEN duration ELSE bestFit
           min1 == IF diff < minDiff THEN diff ELSE minDiff
           dottedDiff == Abs(durationBeats - DOTTED_MULTIPLIER(duration.beats))
           fit2 == IF dottedDiff < min1 THEN duration ELSE fit1
           min2 == IF dottedDiff < min1 THEN dottedDiff ELSE min1
       \* bestFit and minDiff are values by the time the next pass starts
       IN  CHOOSE best \in {fitLoop(k + 1, durationBeats, next.fit, next.min) :
                              next \in {[fit |-> fit2, min |-> min2]}} : TRUE

\* |durationBeats - beats| < minQuantization * 0.5 is kept in halves
findDurationType(durationBeats, cfg) ==
  LET regular == {k \in 1..Len(DURATION_GRID) :
                    2 * Abs(durationBeats - DURATION_GRID[k].beats)
                      < cfg.minQuantization}
      dotted  == {k \in 1..Len(DURATION_GRID) :
                    2 * Abs(durationBeats - DOTTED_MULTIPLIER(DURATION_GRID[k].beats))
                      < cfg.minQuantization}
      first(found) == CHOOSE k \in found : \A l \in found : k <= l
      bestFit == fitLoop(1, durationBeats, DURATION_GRID[1],
                         Abs(durationBeats - DURATION_GRID[1].beats))
      remainder == durationBeats - bestFit.beats
  IN  IF regular /= {}
      THEN [type |-> DURATION_GRID[first(regular)].type, isDotted |-> FALSE,
            remainderBeats |-> 0]
      ELSE IF dotted /= {}
      THEN [type |-> DURATION_GRID[first(dotted)].type, isDotted |-> TRUE,
            remainderBeats |-> 0]
      ELSE [type |-> bestFit.type, isDotted |-> FALSE,
            remainderBeats |-> IF remainder > cfg.minQuantization
                               THEN remainder ELSE 0]

\* the beats of a found duration, had they been what it leaves over
beatsOf_Leftover(found) == found.remainderBeats

\* the beats of a found duration: dotted ones times DOTTED_MULTIPLIER
beatsOf(found) ==
  IF found.isDotted
  THEN DOTTED_MULTIPLIER(getDurationBeats(found.type))
  ELSE getDurationBeats(found.type)

\* createTiedNotes with every note at the chain's first beat
RECURSIVE createTiedNotes_SameStart(_, _, _, _, _)
createTiedNotes_SameStart(pitch, currentBeat, remaining, velocity, cfg) ==
  IF ~(remaining > cfg.minQuantization) THEN <<>>
  ELSE LET found == findDurationType(remaining, cfg)
           duration == beatsOf(found)
       IN  << [pitch |-> pitch,
               startBeat |-> currentBeat,
               durationBeats |-> Min(duration, remaining),
               durationType |-> found.type,
               isDotted |-> found.isDotted,
               velocity |-> velocity,
               tieToNext |-> remaining - duration > cfg.minQuantization] >>
           \o createTiedNotes_SameStart(pitch, currentBeat, remaining - duration,
                                        velocity, cfg)

\* createTiedNotes: the while loop, notes in the order pushed
RECURSIVE createTiedNotes(_, _, _, _, _)
createTiedNotes(pitch, currentBeat, remaining, velocity, cfg) ==
  IF ~(remaining > cfg.minQuantization) THEN <<>>
  ELSE LET found == findDurationType(remaining, cfg)
           duration == beatsOf(found)
       IN  << [pitch |-> pitch,
               startBeat |-> currentBeat,
               durationBeats |-> Min(duration, remaining),
               durationType |-> found.type,
               isDotted |-> found.isDotted,
               velocity |-> velocity,
               tieToNext |-> remaining - duration > cfg.minQuantization] >>
           \o createTiedNotes(pitch, currentBeat + duration, remaining - duration,
                              velocity, cfg)

\* quantizeNote on a quantizer whose detector holds `onsets`: the detector's
\* history afterwards and the notes returned
quantizeNote(note, cfg, onsets) ==
  LET added == addOnset(onsets, note.startTime)
      startBeat == timeToBeat(note.startTime, cfg, added)
      durationBeats == timeToBeat(note.duration, cfg, added)
      snappedStart == snapToGrid(startBeat, cfg)
      snappedDuration == snapToGrid(durationBeats, cfg)
      clampedDuration == Max(snappedDuration, cfg.minQuantization)
      found == findDurationType(clampedDuration, cfg)
      first == [pitch |-> note.pitch,
                startBeat |-> snappedStart,
                durationBeats |-> beatsOf(found),
                durationType |-> found.type,
                isDotted |-> found.isDotted,
                velocity |-> note.velocity,
                tieToNext |-> found.remainderBeats > 0]
  IN  [onsetTimes |-> added,
       notes |-> IF found.remainderBeats > 0
                 THEN <<first>> \o createTiedNotes(note.pitch,
                                     snappedStart + first.durationBeats,
                                     found.remainderBeats, note.velocity, cfg)
                 ELSE <<first>>]

\* [...notes].sort by startTime: stable, so the note at place j goes behind
\* the notes that start earlier and those before it that start with it
sortByStart(notes) ==
  LET placeOf(j) ==
        Cardinality({k \in 1..Len(notes) :
                       \/ notes[k].startTime < notes[j].startTime
                       \/ notes[k].startTime = notes[j].startTime /\ k <= j})
  IN  [i \in 1..Len(notes) |-> notes[CHOOSE j \in 1..Len(notes) : placeOf(j) = i]]

\* the loop of quantizeNotes over the sorted notes: the detector's history
\* after it and the notes pushed
RECURSIVE onsetsOfEach(_, _)
onsetsOfEach(sorted, onsets) ==
  IF sorted = <<>> THEN onsets
  ELSE onsetsOfEach(Tail(sorted), addOnset(onsets, Head(sorted).startTime))

RECURSIVE quantizeEach(_, _, _)
quantizeEach(sorted, cfg, onsets) ==
  IF sorted = <<>> THEN <<>>
  ELSE quantizeNote(Head(sorted), cfg, onsets).notes
         \o quantizeEach(Tail(sorted), cfg, addOnset(onsets, Head(sorted).startTime))

quantizeNotes(notes, cfg, onsets) ==
  [onsetTimes |-> onsetsOfEach(sortByStart(notes), onsets),
   notes |-> quantizeEach(sortByStart(notes), cfg, onsets)]


\* ---------------------------------------------------------------------------
\* The quantizer under bounded inputs.  Times are in ticks of 1/960 s: the
\* durations are 1/960 s, 0.5 s, 0.5125 s, 0.53125 s, 0.75 s, 1.75 s, 2.5 s
\* and 2.625 s, which at 120 bpm are about 0, 1, 1.025, 1.0625, 1.5, 3.5, 5
\* and 5.25 beats, and at 60 bpm half of that.
\* ---------------------------------------------------------------------------
Bpms == {60, 120}

SnapTolerances == {3, 4}

MinQuantizations == {OneBeat \div 16, OneBeat \div 4}

Configs ==
  [bpm : Bpms, snapTolerance : SnapTolerances,
   minQuantization : MinQuantizations, detectTriplets : BOOLEAN]

StartTimes == {0, 288}

Durations == {1, 480, 492, 510, 720, 1680, 2400, 2520}

\* the keys struck: a pitch and its velocity
Keys == {[pitch |-> 60, velocity |-> 100], [pitch |-> 64, velocity |-> 80]}

DetectedNotes ==
  {[pitch |-> key.pitch, startTime |-> startTime, duration |-> duration,
    velocity |-> key.velocity] :
     key \in Keys, startTime \in StartTimes, duration \in Durations}

\* the notes quantizeNotes is given lists of
BatchNotes ==
  {note \in DetectedNotes :
     note.pitch = 60 /\ note.velocity = 100 /\ note.duration \in {480, 2400}}

NoteLists == UNION {[1..n -> BatchNotes] : n \in 0..MaxNotes}

\* new NoteQuantizer(config)
InitQuantizer ==
  /\ config \in Configs
  /\ onsetTimes = <<>>
  /\ lastOp = "none"
  /\ lastArg = <<>>
  /\ returned = <<>>
  /\ repeated = FALSE
  /\ ChannelUnused
  /\ DecoderUnused
  /\ WorkerUnused
  /\ LanguageUnused
  /\ ControlUnused

QuantizeNoteCall(note) ==
  /\ Len(onsetTimes) < MaxHistory
  /\ \E result \in {quantizeNote(note, config, onsetTimes)} :
        /\ onsetTimes' = result.onsetTimes
        /\ returned' = result.notes
  /\ lastOp' = "quantizeNote"
  /\ lastArg' = <<note>>
  /\ repeated' = FALSE
  /\ UNCHANGED <<config, chanVars, decVars, wkVars, lgVars, ctlVars>>

QuantizeNotesCall(notes) ==
  /\ Len(onsetTimes) + Len(notes) <= MaxHistory
  /\ \E result \in {quantizeNotes(notes, config, onsetTimes)} :
        /\ onsetTimes' = result.onsetTimes
        /\ returned' = result.notes
  /\ lastOp' = "quantizeNotes"
  /\ lastArg' = notes
  /\ repeated' = (lastOp = "quantizeNotes" /\ lastArg = notes)
  /\ UNCHANGED <<config, chanVars, decVars, wkVars, lgVars, ctlVars>>

SetBPMCall(bpm) ==
  /\ bpm /= config.bpm
  /\ config' = [config EXCEPT !.bpm = bpm]
  /\ lastOp' = "setBPM"
  /\ lastArg' = bpm
  /\ returned' = <<>>
  /\ repeated' = FALSE
  /\ UNCHANGED <<onsetTimes, chanVars, decVars, wkVars, lgVars, ctlVars>>

\* the beats findDurationType is asked about: every 1/32 beat up to 5 beats,
\* and 0.7 beat
DurationBeats ==
  {k * (OneBeat \div 32) : k \in 0..MaxDurationSteps} \cup {(7 * OneBeat) \div 10}

\* the beats snapToGrid is asked about: every 1/160 beat up to 1/4 beat
GridBeats == {k * (OneBeat \div 160) : k \in 0..MaxGridSteps}

\* the beats snapToGrid is given: one of those, or what it returned last
SnapInputs ==
  GridBeats \cup (IF lastOp = "snapToGrid" THEN {returned} ELSE {})

\* a call of findDurationType from outside the class
FindDurationTypeCall(durationBeats) ==
  /\ returned' = findDurationType(durationBeats, config)
  /\ lastOp' = "findDurationType"
  /\ lastArg' = durationBeats
  /\ repeated' = FALSE
  /\ UNCHANGED <<config, onsetTimes, chanVars, decVars, wkVars, lgVars, ctlVars>>

\* a call of snapToGrid from outside the class
SnapToGridCall(beat) ==
  /\ returned' = snapToGrid(beat, config)
  /\ lastOp' = "snapToGrid"
  /\ lastArg' = beat
  /\ repeated' = (lastOp = "snapToGrid" /\ beat = returned)
  /\ UNCHANGED <<config, onsetTimes, chanVars, decVars, wkVars, lgVars, ctlVars>>

NextQuantizer ==
  \/ \E note \in DetectedNotes : QuantizeNoteCall(note)
  \/ \E notes \in NoteLists : QuantizeNotesCall(notes)
  \/ \E bpm \in Bpms : SetBPMCall(bpm)

SpecQuantizer == InitQuantizer /\ [][NextQuantizer]_vars

\* the quantizer's two pure methods, called on a quantizer of any configuration
NextQuantizerCalls ==
  \/ \E durationBeats \in DurationBeats : FindDurationTypeCall(durationBeats)
  \/ \E beat \in SnapInputs : SnapToGridCall(beat)

SpecQuantizerCalls == InitQuantizer /\ [][NextQuantizerCalls]_vars

\* ---------------------------------------------------------------------------
\* A BeatDetector on its own.  The first onset is at 0; each later one is the
\* last plus a gap, in ticks of 1/960 s: 0.5 s before it, or 0.1 s, 0.2 s,
\* 0.225 s, about 0.37 s, 0.5 s, 1.5 s, 2.0 s or 2.5 s after it.
\* ---------------------------------------------------------------------------
Gaps == {0 - 480, 96, 192, 216, 355, 480, 1440, 1920, 2400}

OnsetChoices ==
  IF onsetTimes = <<>> THEN {0}
  ELSE {onsetTimes[Len(onsetTimes)] + gap : gap \in Gaps}

InitBeatDetector ==
  /\ config = DEFAULT_CONFIG
  /\ onsetTimes = <<>>
  /\ lastOp = "none"
  /\ lastArg = <<>>
  /\ returned = <<>>
  /\ repeated = FALSE
  /\ ChannelUnused
  /\ DecoderUnused
  /\ WorkerUnused
  /\ LanguageUnused
  /\ ControlUnused

AddOnsetCall(time) ==
  /\ Len(onsetTimes) < MaxOnsets
  /\ onsetTimes' = addOnset(onsetTimes, time)
  /\ lastOp' = "addOnset"
  /\ lastArg' = time
  /\ returned' = <<>>
  /\ repeated' = FALSE
  /\ UNCHANGED <<config, chanVars, decVars, wkVars, lgVars, ctlVars>>

EstimateBPMCall ==
  /\ lastOp /= "estimateBPM"
  /\ returned' = estimateBPM(onsetTimes)
  /\ lastOp' = "estimateBPM"
  /\ lastArg' = <<>>
  /\ repeated' = FALSE
  /\ UNCHANGED <<config, onsetTimes, chanVars, decVars, wkVars, lgVars, ctlVars>>

NextBeatDetector ==
  \/ \E time \in OnsetChoices : AddOnsetCall(time)
  \/ EstimateBPMCall

SpecBeatDetector == InitBeatDetector /\ [][NextBeatDetector]_vars


\* ---------------------------------------------------------------------------
\* Properties of the quantizer
\* ---------------------------------------------------------------------------
RECURSIVE sumOfDurationBeats(_)
sumOfDurationBeats(notes) ==
  IF notes = <<>> THEN 0
  ELSE Head(notes).durationBeats + sumOfDurationBeats(Tail(notes))

\* the quantized total duration of the note quantizeNote was last given
quantizedTotal ==
  Max(snapToGrid(lastArg[1].duration * config.bpm, config),
      config.minQuantization)

\* C14: the durationBeats of the QuantizedNotes quantizeNote returns for a
\* DetectedNote sum to the note's quantized total duration,
\* max(snapToGrid(timeToBeat(duration)), minQuantization), whatever that total
\* is (1e-6 beat is less than one unit of 1/57600 beat, so the sum and the
\* total are the same count of units).
C14_ChainSumsToTotal ==
  lastOp = "quantizeNote" => sumOfDurationBeats(returned) = quantizedTotal


\* the ladder entries a duration matches, plain and dotted: those within half
\* a minQuantization of it
ladderMatches(d) ==
  {k \in 1..Len(DURATION_GRID) :
     2 * Abs(d - DURATION_GRID[k].beats) < config.minQuantization}

dottedMatches(d) ==
  {k \in 1..Len(DURATION_GRID) :
     2 * Abs(d - (3 * DURATION_GRID[k].beats) \div 2) < config.minQuantization}

firstOf(found) == CHOOSE k \in found : \A l \in found : k <= l

\* the ladder entries closest to a duration
closestEntries(d) ==
  {k \in 1..Len(DURATION_GRID) :
     \A l \in 1..Len(DURATION_GRID) :
        Abs(d - DURATION_GRID[k].beats) <= Abs(d - DURATION_GRID[l].beats)}

\* C15: findDurationType(d) returns the first ladder entry d matches, undotted
\* and with remainder 0; when there is none, the first ladder entry whose
\* dotted value d matches, dotted and with remainder 0; and when there is none
\* either, a closest ladder entry, undotted, with the leftover
\* d - beats(entry) as the remainder.
C15_DurationTyping ==
  lastOp = "findDurationType" =>
    IF ladderMatches(lastArg) /= {}
    THEN returned = [type |-> DURATION_GRID[firstOf(ladderMatches(lastArg))].type,
                     isDotted |-> FALSE, remainderBeats |-> 0]
    ELSE IF dottedMatches(lastArg) /= {}
    THEN returned = [type |-> DURATION_GRID[firstOf(dottedMatches(lastArg))].type,
                     isDotted |-> TRUE, remainderBeats |-> 0]
    ELSE \E k \in closestEntries(lastArg) :
           returned = [type |-> DURATION_GRID[k].type, isDotted |-> FALSE,
                       remainderBeats |-> lastArg - DURATION_GRID[k].beats]


\* C16: in the list quantizeNote returns for one DetectedNote every note but
\* the last has tieToNext set and the last has not, every note has the
\* DetectedNote's pitch and velocity, and every note after the first starts at
\* the beat where the one before it ends.
C16_TieChain ==
  lastOp = "quantizeNote" =>
    /\ Len(returned) >= 1
    /\ \A i \in 1..Len(returned) :
         /\ returned[i].tieToNext = (i < Len(returned))
         /\ returned[i].pitch = lastArg[1].pitch
         /\ returned[i].velocity = lastArg[1].velocity
         /\ i > 1 => returned[i].startBeat
                       = returned[i - 1].startBeat + returned[i - 1].durationBeats

\* quantizeNote returned a chain of three notes
C16_Witness ==
  /\ lastOp = "quantizeNote"
  /\ Len(returned) >= 3
  /\ returned[1].tieToNext
  /\ returned[3].startBeat > returned[2].startBeat


\* C17: a quantizeNotes call given the list of the quantizeNotes call just
\* before it, with no change of configuration in between, returns the
\* sequence that call returned, although both add the notes' onsets to the
\* detector's history.
C17_SameListSameNotes ==
  [][ \A notes \in NoteLists :
        ( /\ lastOp = "quantizeNotes"
          /\ lastArg = notes
          /\ QuantizeNotesCall(notes) )
        => returned' = returned ]_vars

\* quantizeNotes was called twice in a row with one list of two notes, of
\* which the later one comes first, and the detector holds both calls' onsets
C17_Witness ==
  /\ repeated
  /\ Len(lastArg) = 2
  /\ lastArg[1].startTime > lastArg[2].startTime
  /\ Len(onsetTimes) = 4
  /\ Len(returned) >= 2


\* ---------------------------------------------------------------------------
\* Properties of the beat detector
\* ---------------------------------------------------------------------------
\* the stored onsets are evenly spaced by d
evenlySpaced(d) ==
  \A i \in 1..(Len(onsetTimes) - 1) : onsetTimes[i + 1] - onsetTimes[i] = d

\* the 50 ms bucket an interval lies in: bucket b holds the intervals from
\* 25 ms below b * 50 ms to 25 ms above it, the lower end included
bucketOf(d) ==
  CHOOSE b \in {d \div binSize, d \div binSize + 1} :
     /\ 2 * b * binSize - binSize <= 2 * d
     /\ 2 * d < 2 * b * binSize + binSize

\* bpm is the whole number nearest to 60 s over the bucket's interval, doubled
\* `up` times and halved `down` times, being at least 60 and at most 180 then
\* and with no fewer doublings or halvings
foldedBucketBPM(b, bpm) ==
  \E up \in 0..3, down \in 0..3 :
     LET num == 60 * OneSecond * 2^up
         den == b * binSize * 2^down
     IN  /\ up = 0 \/ 60 * OneSecond * 2^(up - 1) < 60 * b * binSize
         /\ up > 0 => down = 0
         /\ down = 0 \/ 60 * OneSecond > 180 * b * binSize * 2^(down - 1)
         /\ 60 * den <= num
         /\ num <= 180 * den
         /\ 2 * den * bpm - den <= 2 * num
         /\ 2 * num < 2 * den * bpm + den

\* C18: with at least 4 onsets stored, evenly spaced by an interval d from
\* 0.2 s to 2.0 s, estimateBPM returns the BPM of the 50 ms bucket d lies in,
\* folded into 60..180; for d = 0.5 s that is 120.
C18_EvenOnsets ==
  (lastOp = "estimateBPM" /\ Len(onsetTimes) >= 4) =>
    LET d == onsetTimes[2] - onsetTimes[1]
    IN  (d >= minInterval /\ d <= maxInterval /\ evenlySpaced(d)) =>
          /\ foldedBucketBPM(bucketOf(d), returned)
          /\ 2 * d = OneSecond => returned = 120

\* estimateBPM answered 120 for at least 4 onsets 0.5 s apart
C18_Witness ==
  /\ lastOp = "estimateBPM"
  /\ Len(onsetTimes) >= 4
  /\ evenlySpaced(OneSecond \div 2)
  /\ returned = 120


\* the places of the stored inter-onset intervals that lie in [0.2 s, 2.0 s]
validPlaces ==
  {i \in 1..(Len(onsetTimes) - 1) :
     /\ onsetTimes[i + 1] - onsetTimes[i] >= minInterval
     /\ onsetTimes[i + 1] - onsetTimes[i] <= maxInterval}

\* the number of those intervals that lie in bucket b
countIn(b) ==
  Cardinality({i \in validPlaces : bucketOf(onsetTimes[i + 1] - onsetTimes[i]) = b})

\* the buckets holding the most of them
dominantBuckets ==
  LET buckets == {bucketOf(onsetTimes[i + 1] - onsetTimes[i]) : i \in validPlaces}
  IN  {b \in buckets : \A other \in buckets : countIn(other) <= countIn(b)}

\* C19: whatever onsets are stored, estimateBPM returns a value from 60 to
\* 180: 120 when fewer than 4 onsets are stored or no inter-onset interval
\* lies in [0.2 s, 2.0 s], and otherwise the BPM of a bucket holding the most
\* intervals, doubled while below 60 and halved while above 180.
C19_EstimateInRange ==
  lastOp = "estimateBPM" =>
    /\ returned \in 60..180
    /\ IF Len(onsetTimes) < 4 \/ validPlaces = {}
       THEN returned = 120
       ELSE \E b \in dominantBuckets : foldedBucketBPM(b, returned)

\* estimateBPM answered 150, the halved 300 of the 0.2 s bucket, for a
\* history that also holds an interval too short to count and one in another
\* bucket
C19_Witness ==
  /\ lastOp = "estimateBPM"
  /\ Len(onsetTimes) >= 4
  /\ returned = 150
  /\ \E i \in 1..(Len(onsetTimes) - 1) : onsetTimes[i + 1] - onsetTimes[i] < minInterval
  /\ \E i \in validPlaces : bucketOf(onsetTimes[i + 1] - onsetTimes[i]) /= 4


\* the distance from a beat to the nearest multiple of a grid unit
errorTo(beat, unit) == Min(beat % unit, unit - (beat % unit))

\* what the claim says of one snapToGrid call: given `beat` it returned
\* `snapped`
snapsAsClaimed(beat, snapped) ==
  LET gridUnit == config.minQuantization
      tripletUnit == (2 * gridUnit) \div 3
      gridError == errorTo(beat, gridUnit)
      tripletError == errorTo(beat, tripletUnit)
  IN  IF 10 * gridError <= config.snapTolerance * gridUnit
      THEN snapped % gridUnit = 0 /\ Abs(beat - snapped) = gridError
      ELSE config.detectTriplets =>
             \/ /\ gridError <= tripletError
                /\ snapped % gridUnit = 0
                /\ Abs(beat - snapped) = gridError
             \/ /\ tripletError <= gridError
                /\ snapped % tripletUnit = 0
                /\ Abs(beat - snapped) = tripletError

\* a snapToGrid call given what the snapToGrid call just before returned
\* returns it again
snapsAgain ==
  \A beat \in SnapInputs :
     ( /\ lastOp = "snapToGrid"
       /\ lastOp' = "snapToGrid"
       /\ beat = returned
       /\ SnapToGridCall(beat) )
     => returned' = returned

\* C20 as stated: snapToGrid returns the nearest multiple of minQuantization
\* when that is within snapTolerance x minQuantization of the beat; when it is
\* not and detectTriplets is on, the closer of that and the nearest multiple
\* of 2/3 x minQuantization; and snapToGrid of what snapToGrid returned is
\* that again, for every configuration.
C20_SnapAsStated ==
  /\ [](lastOp = "snapToGrid" => snapsAsClaimed(lastArg, returned))
  /\ [][snapsAgain]_vars

\* C20, amended: the same, with snapToGrid of what snapToGrid returned being
\* that again when detectTriplets is off or snapTolerance is below 1/3.
C20_SnapToGrid ==
  /\ [](lastOp = "snapToGrid" => snapsAsClaimed(lastArg, returned))
  /\ [][(~config.detectTriplets \/ 3 * config.snapTolerance < 10) => snapsAgain]_vars

\* snapToGrid, with detectTriplets on and snapTolerance 0.3, was given the
\* triplet position it had just returned, off the grid, and returned it again
C20_Witness ==
  /\ lastOp = "snapToGrid"
  /\ repeated
  /\ config.detectTriplets
  /\ config.snapTolerance = 3
  /\ returned % config.minQuantization /= 0
  /\ returned = lastArg


\* ---------------------------------------------------------------------------
\* Properties of the channel's readers
\* ---------------------------------------------------------------------------
\* the samples skip(offset) followed by pull of n samples would return: the
\* n unread samples after the first `offset` ones
afterSkip(offset, n) ==
  SubSeq(accepted, Len(taken) + offset + 1, Len(taken) + offset + n)

\* C21: no step of peek(output, offset) changes readIndex, writeIndex or
\* storage; peek returns 0 when offset >= availableRead(), and otherwise
\* copies min(availableRead() - offset, output.length) samples, which are the
\* samples skip(offset) followed by pull(output) would have returned.
C21_PeekLeavesChannel ==
  [][ (ConsumerStep /\ cOp' = "peek") =>
        /\ UNCHANGED <<readIndex, writeIndex, storage>>
        /\ ConsumerLoadRead =>
             LET available == availableRead(cW, readIndex, capacity)
             IN  IF cOffset >= available
                 THEN cPc' = "idle" /\ cRet' = 0
                 ELSE /\ cPc' /= "idle"
                      /\ cToRead' = Min(available - cOffset, cLen)
        /\ (ConsumerRead /\ cPc' = "idle") =>
             /\ cRet' = cToRead
             /\ cOut' = afterSkip(cOffset, cToRead) ]_vars

\* a peek at offset 1 that began past the end of storage returned a sample,
\* after samples had been taken
C21_Witness ==
  /\ cOp = "peek"
  /\ cPc = "idle"
  /\ cOffset = 1
  /\ cRet = 1
  /\ readIndex + cOffset >= capacity
  /\ Len(taken) > 0

(***************************************************************************)
(* Properties of the worker's ticks.                                       *)
(***************************************************************************)
\* a processAudio call reaches its skip: in demo mode, with no session yet,
\* or when session.run has resolved
TickSucceeds == TickDemo \/ TickNoSession \/ \E roll \in Rolls : TickEnd(roll)

\* the samples a skip moved the read position by
skipped == (readIndex' - readIndex + capacity) % capacity

\* C22: a processing tick that reaches its skip has peeked windowSamples
\* unread samples, moves the read position by exactly hopSamples and adds to
\* processedSamples what it skipped; and its window starts one hop after the
\* window of the tick that reached its skip before it, so that the two
\* windows share windowSamples - hopSamples samples.
C22_WindowsHopByHop ==
  [][ TickSucceeds =>
        /\ skipped = hopSamples
        /\ processedSamples' - processedSamples = skipped
        /\ windowLog.any =>
             windowLog'.start = advance(windowLog.start, hopSamples, capacity) ]_vars

\* the interval fires: processAudio, up to its return or its first await
TickStarts == TickIdle \/ TickDemo \/ TickNoSession \/ TickBegin

\* C23: a processing tick that finds fewer than windowSamples unread samples
\* changes nothing: readIndex, processedSamples and the decoder's active notes
\* are as before and the tick posts no message.
C23_ShortTickIsNoOp ==
  [][ ( /\ TickStarts
        /\ availableRead(writeIndex, readIndex, capacity) < windowSamples )
      => /\ UNCHANGED <<readIndex, processedSamples, activeNotes, inFlight>>
         /\ lastTask'.posted = {} ]_vars

\* a tick has just returned at its guard with some samples, but no window,
\* unread, in a run that has skipped before
C23_Witness ==
  /\ lastTask = [name |-> "tick", posted |-> {}]
  /\ processingInterval
  /\ processedSamples > 0
  /\ availableRead(writeIndex, readIndex, capacity) \in 1..(windowSamples - 1)

\* C24: when session.run rejects, the tick posts ERROR (INFERENCE_FAILED)
\* and its window is skipped: the read position and processedSamples move
\* on by one hop, so that the next tick peeks the following window.
C24_FailedTickSkips ==
  [][ TickFails =>
        /\ lastTask'.posted = {"ERROR"}
        /\ skipped = hopSamples
        /\ processedSamples' = processedSamples + hopSamples ]_vars

\* C25: a tick whose inference fails leaves the decoder as it found it: no
\* step of it (its start up to the await, and its catch) changes the active
\* notes or the thresholds, it posts no NOTES_DETECTED, and it leaves the
\* read position and processedSamples, from which the later ticks take their
\* window and their times, where they were.
C25_FailedTickIsolated ==
  [][ (TickBegin \/ TickFails) =>
        /\ UNCHANGED <<activeNotes, onsetThreshold, offsetThreshold,
                       minDurationSeconds>>
        /\ UNCHANGED <<readIndex, processedSamples>>
        /\ "NOTES_DETECTED" \notin lastTask'.posted ]_vars

\* a tick has failed while the decoder held an active note
C25_Witness ==
  /\ lastTask = [name |-> "run", posted |-> {"ERROR"}]
  /\ activeNotes /= NoNotes
  /\ isRunning

(***************************************************************************)
(* Properties of the worker's start-up.                                    *)
(***************************************************************************)
\* C26: when loadModel fails (its catch), initialize still posts READY and
\* the worker is in demo mode; demo mode is never left; and a tick that
\* starts in demo mode does not call the model (no session.run is awaited,
\* the decoder is not touched), whether or not an earlier INIT left a session.
C26_LoadFailureFallsBack ==
  [][ /\ (LoadModelEnds /\ lastTask'.name = "load failed") =>
           /\ lastTask'.posted = {"READY"}
           /\ initialized'
           /\ demoMode'
      /\ demoMode => demoMode'
      /\ (TickStarts /\ demoMode) =>
           /\ UNCHANGED <<inFlight, activeNotes>>
           /\ TickIdle \/ TickDemo ]_vars

\* a demo tick has run although an earlier INIT had loaded a session
C26_Witness ==
  /\ demoMode
  /\ session
  /\ lastTask.name = "tick"
  /\ "BUFFER_HEALTH" \in lastTask.posted

\* the types of the messages a worker whose model loaded can post
ModelModeTypes ==
  {"READY", "BUFFER_HEALTH", "PIANO_ROLL_UPDATE", "NOTES_DETECTED", "ERROR"}

\* C27: the switch to demo mode is reported: the initialize whose loadModel
\* failed posts a message of a type that a worker running the model never
\* posts, so that the messages tell the two modes apart.
C27_FallbackReported ==
  [][ (LoadModelEnds /\ lastTask'.name = "load failed") =>
        \E type \in lastTask'.posted : type \notin ModelModeTypes ]_vars

(***************************************************************************)
(* Properties of the engine's start-up.                                    *)
(***************************************************************************)
\* C28: without SharedArrayBuffer a startRecording call fails in initialize
\* with the error SHARED_BUFFER_UNSUPPORTED, not recoverable; isInitialized
\* stays false, there is no shared buffer, the engine does not get to
\* recording and no INIT or START is posted.
C28_NoSharedBufferIsFatal ==
  [][ ((StartRecording \/ StartRecordingThrows) /\ ~sharedArrayBuffer) =>
        /\ thrown'.code = "SHARED_BUFFER_UNSUPPORTED"
        /\ ~thrown'.recoverable
        /\ ~isInitialized'
        /\ ~sharedBuffer'
        /\ ~isRecording'
        /\ inbox' = inbox ]_vars

(***************************************************************************)
(* Properties of the producer's progress.                                  *)
(***************************************************************************)
\* the steps a call of push has left at most: two loads for availableWrite,
\* the load of writeIndex, one store per sample, the store of writeIndex
pushRank ==
  CASE pPc = "idle"   -> 0
    [] pPc = "store"  -> 1
    [] pPc = "write"  -> 1 + (pToWrite - pI)
    [] pPc = "loadW"  -> 2 + pToWrite
    [] pPc = "availR" -> 3 + Len(pData)
    [] pPc = "availW" -> 4 + Len(pData)

\* a call of push / pushToBuffer is under way
pushing == pPc \in {"availW", "availR", "loadW", "write", "store"}

\* C29: a call of push / pushToBuffer ends within 4 + data.length steps of
\* its own, whatever the consumer does in between: its next step can always
\* be taken, each step brings its end nearer, writeIndex is stored only by
\* the call's last step, and a call that finds the channel full returns 0
\* at its second load, having stored nothing.
C29_PushNeverWaits ==
  [][ /\ pushing => ENABLED ProducerStep
      /\ (ProducerStep /\ pushing) =>
           /\ pushRank <= 4 + MaxBatch
           /\ pushRank' < pushRank
      /\ (ProducerStep /\ writeIndex' /= writeIndex) =>
           (pPc = "store" /\ pPc' = "idle")
      /\ (PushLoadRead /\ availableRead(pW, readIndex, capacity) = capacity - 1) =>
           /\ pPc' = "idle"
           /\ pRet' = 0
           /\ UNCHANGED <<writeIndex, storage>> ]_vars

\* a call has returned 0 on a full channel
C29_Witness ==
  /\ pPc = "idle"
  /\ pRet = 0
  /\ offeredAvail = 0
  /\ availableRead(writeIndex, readIndex, capacity) = capacity - 1

(***************************************************************************)
(* The PianoScript language (lib/language): generatePianoScript and        *)
(* parsePianoScript.  A number of seconds is a count of half milliseconds, *)
(* so that toFixed(3) has something to round.  A line of a script is kept  *)
(* as the four pieces of text the generator's template and the parser's    *)
(* regular expression have between their fixed parts "@", "s for" and "s": *)
(* the note name as its characters, the octave's digits as the number they *)
(* spell, and each decimal as the count of thousandths it spells.          *)
(***************************************************************************)
\* half milliseconds in a millisecond
Millisecond == 2

\* String.prototype.toUpperCase, on the characters that occur
upperCase(char) ==
  CASE char = "a" -> "A" [] char = "b" -> "B" [] char = "c" -> "C"
    [] char = "d" -> "D" [] char = "e" -> "E" [] char = "f" -> "F"
    [] char = "g" -> "G" [] OTHER -> char

toUpperCase(text) == [i \in DOMAIN text |-> upperCase(text[i])]

\* number.toFixed(3): the nearest count of thousandths
toFixed(number) == (number + Millisecond \div 2) \div Millisecond

\* parseFloat of a decimal with three places
parseFloat(thousandths) == thousandths * Millisecond

\* generatePianoScript: one line per event, in the order given
generatePianoScript(list) ==
  [i \in DOMAIN list |->
     [note     |-> list[i].note,
      octave   |-> list[i].octave,
      start    |-> toFixed(list[i].startTime),
      duration |-> toFixed(list[i].duration)]]

\* /^([A-G][#b]?)(\d+)\s*@\s*([\d.]+)\s*s\s*for\s*([\d.]+)\s*s$/i
matches(line) ==
  /\ Len(line.note) \in {1, 2}
  /\ upperCase(line.note[1]) \in {"A", "B", "C", "D", "E", "F", "G"}
  /\ Len(line.note) = 2 => upperCase(line.note[2]) \in {"#", "B"}
  /\ line.octave >= 0
  /\ line.start >= 0
  /\ line.duration >= 0

\* events.push({ note: note.toUpperCase(), octave: parseInt(octaveStr, 10),
\* startTime: parseFloat(startStr), duration: parseFloat(durationStr) })
eventOf(line) ==
  [note      |-> toUpperCase(line.note),
   octave    |-> line.octave,
   startTime |-> parseFloat(line.start),
   duration  |-> parseFloat(line.duration)]

\* the loop of parsePianoScript: comments and lines that do not match are
\* passed over
RECURSIVE pushed(_)
pushed(lines) ==
  IF lines = <<>> THEN <<>>
  ELSE IF matches(Head(lines))
         THEN <<eventOf(Head(lines))>> \o pushed(Tail(lines))
         ELSE pushed(Tail(lines))

\* parsePianoScript: events.sort((a, b) => a.startTime - b.startTime)
parsePianoScript(lines) == sortByStart(pushed(lines))

\* bound: the events of a list, the lines of a script
MaxEvents == 2

\* the comment's examples of NoteEvent.note: "C", "D#", "Fb"
NoteNames == {<<"C">>, <<"D", "#">>, <<"F", "b">>}
\* 0 s, half a millisecond, 1 s
StartTimesOfEvents == {0, 1, 1000 * Millisecond}
NoteEvents ==
  [note : NoteNames, octave : {4}, startTime : StartTimesOfEvents,
   duration : {1000 * Millisecond}]
EventLists == UNION {[1..n -> NoteEvents] : n \in 0..MaxEvents}

\* scripts as a user writes them: nothing; a comment and a line in lower
\* case; two lines, the later note first
CommentLine == [note |-> <<"/", "/">>, octave |-> 0, start |-> 0, duration |-> 0]
UserScripts ==
  { <<>>,
    <<CommentLine, [note |-> <<"c">>, octave |-> 4, start |-> 0, duration |-> 500]>>,
    <<[note |-> <<"E">>, octave |-> 4, start |-> 1000, duration |-> 1000],
      [note |-> <<"C">>, octave |-> 4, start |-> 0, duration |-> 1000]>> }

InitLanguage ==
  /\ events \in EventLists
  /\ script \in UserScripts
  /\ langOp = "none"
  /\ ChannelUnused
  /\ DecoderUnused
  /\ WorkerUnused
  /\ QuantizerUnused
  /\ ControlUnused

\* generatePianoScript(events)
GenerateCall ==
  /\ script' = generatePianoScript(events)
  /\ langOp' = "generate"
  /\ UNCHANGED <<events, chanVars, decVars, wkVars, qVars, ctlVars>>

\* parsePianoScript(script)
ParseCall ==
  /\ events' = parsePianoScript(script)
  /\ langOp' = "parse"
  /\ UNCHANGED <<script, chanVars, decVars, wkVars, qVars, ctlVars>>

NextLanguage == GenerateCall \/ ParseCall

SpecLanguage == InitLanguage /\ [][NextLanguage]_vars

\* the list is in the order of its start times
sortedByStartTime(list) ==
  \A i, j \in DOMAIN list : i < j => list[i].startTime <= list[j].startTime

\* every start time and duration is a whole number of milliseconds
wholeMilliseconds(list) ==
  \A i \in DOMAIN list :
    /\ list[i].startTime % Millisecond = 0
    /\ list[i].duration % Millisecond = 0

\* the script is what the generator makes of some such list
canonical(lines) ==
  \E list \in EventLists :
    /\ sortedByStartTime(list)
    /\ wholeMilliseconds(list)
    /\ lines = generatePianoScript(list)

\* C30: parsing what the generator made of a list of events that is sorted
\* by startTime and whose times are whole milliseconds gives that list back;
\* and generating from what the parser made of a script in the generator's
\* form gives that script back.
C30_RoundTrip ==
  [][ /\ ( /\ ParseCall
           /\ langOp = "generate"
           /\ sortedByStartTime(events)
           /\ wholeMilliseconds(events) ) => events' = events
      /\ ( /\ GenerateCall
           /\ langOp = "parse"
           /\ canonical(script) ) => script' = script ]_vars

(***************************************************************************)
(* The decoder fed onset probabilities as well: processFrame takes a       *)
(* Float32Array or null for them.                                          *)
(***************************************************************************)
\* onsetProbabilities: null, or an array with no onset or one on every key
OnsetArrays ==
  {Null} \cup {[pitch \in Pitches |-> level] : level \in {0, MaxLevel}}

NextDecoderOnsets ==
  \/ \E frameProbabilities \in FrameInputs, onsetProbabilities \in OnsetArrays :
       ProcessFrameCall(frameProbabilities, onsetProbabilities)
  \/ \E endTime \in EndTimes : CloseAllNotesCall(endTime)

SpecDecoderOnsets == InitDecoderAlone /\ [][NextDecoderOnsets]_vars

\* const onsetProb = onsetProbabilities ? onsetProbabilities[pitch] : probability
onsetProbOf(frameProbabilities, onsetProbabilities, pitch) ==
  IF onsetProbabilities /= Null
    THEN onsetProbabilities[pitch] ELSE frameProbabilities[pitch]

\* the probabilities of a key in a frame that reach onsetThreshold
triggering(frameProbabilities, onsetProbabilities, pitch) ==
  {probability \in {frameProbabilities[pitch],
                    onsetProbOf(frameProbabilities, onsetProbabilities, pitch)} :
     probability >= onsetThreshold}

C32_OneTickInFlight ==
  /\ inFlight <= 1
  /\ \A first, second \in 1..Len(windowLog.pending) :
       first /= second => windowLog.pending[first] /= windowLog.pending[second]


\* a tick that has run its window through the model or through the fallback
decodes == TickDemo \/ \E roll \in Rolls : TickEnd(roll)

\* C33: every step that moves the read index past a hop is a tick that has
\* first run its window through the model or the fallback strategy, also
\* when START is handled while the model load begun by INIT is pending
C33_SkippedWindowsDecoded ==
  [][skipped /= 0 => decodes]_vars


\* the notes the last call has returned are well formed
wellFormed(note) ==
  /\ note.isActive = FALSE
  /\ note.pitch \in 21..108
  /\ note.endTime = note.startTime + note.duration
  /\ note.duration >= minDurationSeconds

\* C34: every note returned by processFrame or closeAllNotes has isActive
\* false, a pitch in 21..108, endTime = startTime + duration and a duration
\* of at least the minimum; no pitch has two active states; and a pitch that
\* closes in a frame is not active after that frame
C34_EmittedNotesWellFormed ==
  /\ [](\A i \in 1..Len(completedNotes) : wellFormed(completedNotes[i]))
  /\ [](\A i, j \in 1..Len(activeNotes) :
          i /= j => activeNotes[i].pitch /= activeNotes[j].pitch)
  /\ [][ \A frameProbabilities \in FrameInputs :
           ProcessFrameCall(frameProbabilities, Null) =>
             \A pitch \in Pitches :
               has(activeNotes, midiNoteOf(pitch))
                 /\ IsOffset(frameProbabilities[pitch])
                 => ~has(activeNotes', midiNoteOf(pitch)) ]_vars

\* a frame has closed and returned a note while the other key goes on
\* sounding
C34_Witness ==
  /\ ~lastClose.called
  /\ completedNotes /= <<>>
  /\ activeNotes /= <<>>


\* C35: every QuantizedNote returned by quantizeNote or quantizeNotes, the
\* first of a chain and every tied one, has as durationBeats the beats of its
\* durationType, times 1.5 when it is dotted
C35_DurationMatchesType ==
  lastOp \in {"quantizeNote", "quantizeNotes"} =>
    \A i \in 1..Len(returned) :
      returned[i].durationBeats =
        beatsOf([type |-> returned[i].durationType,
                 isDotted |-> returned[i].isDotted])


(***************************************************************************)
(* createTiedNotes, one iteration of its while loop at a time.  lastArg    *)
(* holds the call's arguments and the loop's two locals, returned the      *)
(* notes pushed so far.                                                    *)
(***************************************************************************)
\* the configurations of the loop: those above, and a grid of no width
TieConfigs == Configs \cup {[DEFAULT_CONFIG EXCEPT !.minQuantization = 0]}

\* the remainders createTiedNotes is given: those above, one tick, and a
\* negative one
Remainders == DurationBeats \cup {1, 0 - OneBeat}

InitTiedNotes ==
  /\ config \in TieConfigs
  /\ onsetTimes = <<>>
  /\ lastOp = "none"
  /\ lastArg = <<>>
  /\ returned = <<>>
  /\ repeated = FALSE
  /\ ChannelUnused
  /\ DecoderUnused
  /\ WorkerUnused
  /\ LanguageUnused
  /\ ControlUnused

\* createTiedNotes is entered: notes = [], currentBeat = startBeat,
\* remaining = remainingBeats.  The method reads nothing of the object but
\* its config, so one call on each quantizer shows all it can do
CreateTiedNotesCall(startBeat, remainingBeats) ==
  /\ lastOp = "none"
  /\ lastOp' = "while"
  /\ lastArg' = [startBeat |-> startBeat, remainingBeats |-> remainingBeats,
                 currentBeat |-> startBeat, remaining |-> remainingBeats]
  /\ returned' = <<>>
  /\ repeated' = FALSE
  /\ UNCHANGED <<config, onsetTimes, chanVars, decVars, wkVars, lgVars, ctlVars>>

\* one pass through the body of while (remaining > minQuantization)
TiedNoteStep ==
  /\ lastOp = "while"
  /\ lastArg.remaining > config.minQuantization
  /\ \E found \in {findDurationType(lastArg.remaining, config)} :
       \E duration \in {beatsOf(found)} :
         /\ returned' =
              Append(returned,
                     [pitch |-> 60,
                      startBeat |-> lastArg.currentBeat,
                      durationBeats |-> Min(duration, lastArg.remaining),
                      durationType |-> found.type,
                      isDotted |-> found.isDotted,
                      velocity |-> 100,
                      tieToNext |-> lastArg.remaining - duration
                                      > config.minQuantization])
         /\ lastArg' = [lastArg EXCEPT !.currentBeat = @ + duration,
                                       !.remaining = @ - duration]
  /\ UNCHANGED <<config, onsetTimes, lastOp, repeated, chanVars, decVars,
                 wkVars, lgVars, ctlVars>>

\* the condition of the while fails: return notes
CreateTiedNotesReturns ==
  /\ lastOp = "while"
  /\ ~(lastArg.remaining > config.minQuantization)
  /\ lastOp' = "createTiedNotes"
  /\ UNCHANGED <<config, onsetTimes, lastArg, returned, repeated, chanVars,
                 decVars, wkVars, lgVars, ctlVars>>

NextTiedNotes ==
  \/ \E remainingBeats \in Remainders : CreateTiedNotesCall(0, remainingBeats)
  \/ TiedNoteStep
  \/ CreateTiedNotesReturns

\* a call that has been entered goes on running: the loop is synchronous code
SpecTiedNotes ==
  /\ InitTiedNotes
  /\ [][NextTiedNotes]_vars
  /\ WF_vars(TiedNoteStep \/ CreateTiedNotesReturns)

\* the shortest value of the ladder
shortest == DURATION_GRID[Len(DURATION_GRID)].beats

\* C36: createTiedNotes terminates for every remainder and configuration:
\* each iteration takes at least the shortest ladder value off what remains,
\* the loop is left only once what remains is no more than minQuantization,
\* and every call that is entered returns
C36_TiedNotesTerminate ==
  /\ [][TiedNoteStep => lastArg'.remaining <= lastArg.remaining - shortest]_vars
  /\ [][CreateTiedNotesReturns =>
          /\ lastArg.remaining <= config.minQuantization
          /\ returned = createTiedNotes(60, lastArg.startBeat,
                                        lastArg.remainingBeats, 100, config)]_vars
  /\ (lastOp = "while") ~> (lastOp = "createTiedNotes")

\* a call has returned a chain of three notes or more
C36_Witness ==
  /\ lastOp = "createTiedNotes"
  /\ Len(returned) >= 3


(***************************************************************************)
(* Recording sessions one after another, with the place in the channel     *)
(* where each began kept as history.  What the model computes from a       *)
(* window does not matter here, so every window is silent.                 *)
(***************************************************************************)
\* startRecording, with the write position at that moment noted
StartRecordingOfSession ==
  /\ startRecording
  /\ sessionStart' = writeIndex
  /\ UNCHANGED <<recorderInitialized, recorderRecording, recordingState,
                 detectedNotes, outbox, finalizeTimer>>

SilentRolls == {roll \in Rolls : \A frame \in DOMAIN roll, pitch \in Pitches :
                                   roll[frame][pitch] = 0}

NextSessions ==
  \/ StartRecordingOfSession
  \/ StopRecording
  \/ Capture
  \/ HandleInit
  \/ LoadModelEnds
  \/ HandleStart
  \/ HandleStop
  \/ TickIdle
  \/ TickDemo
  \/ TickNoSession
  \/ TickBegin
  \/ \E roll \in SilentRolls : TickEnd(roll)

SpecSessions == InitWorker /\ [][NextSessions]_vars

\* the unread samples that were captured before the session began
staleUnread ==
  availableRead(writeIndex, readIndex, capacity)
    > availableRead(writeIndex, sessionStart, capacity)

\* the engine is recording for the second time and the worker has handled
\* every message up to the START of that recording
inNewSession == recordings > 1 /\ isRecording /\ inbox = <<>> /\ isRunning

\* a tick peeks its window: in demo mode, with no session, or before its
\* await
peeks == TickDemo \/ TickNoSession \/ TickBegin

\* C38: the window a tick peeks at processedSamples = 0 in a session that
\* follows an earlier one holds only samples pushed since that session's
\* start: none of the unread samples is from before it
C38_NewSessionStartsClean ==
  [][peeks /\ processedSamples = 0 /\ inNewSession => ~staleUnread]_vars


(***************************************************************************)
(* AudioRecorderProcessor, the capture worklet: its message handler and    *)
(* process(), each call whole, on a channel that a reader skips through.   *)
(* Messages arrive in whatever order they are posted.                      *)
(***************************************************************************)
InitWorklet ==
  /\ InitChannel
  /\ DecoderUnused
  /\ WorkerUnused
  /\ QuantizerUnused
  /\ LanguageUnused
  /\ ControlUnused

\* handleMessage, case 'init': initializeBuffer makes its views
RecorderInit ==
  /\ recorderInitialized' = TRUE
  /\ UNCHANGED <<recorderRecording, recordingState, detectedNotes, outbox,
                 finalizeTimer, sessionStart, chanVars, decVars, wkVars,
                 qVars, lgVars>>

\* handleMessage, case 'start'
RecorderStart ==
  /\ recorderRecording' = IF recorderInitialized THEN TRUE ELSE recorderRecording
  /\ UNCHANGED <<recorderInitialized, recordingState, detectedNotes, outbox,
                 finalizeTimer, sessionStart, chanVars, decVars, wkVars,
                 qVars, lgVars>>

\* handleMessage, case 'stop'
RecorderStop ==
  /\ recorderRecording' = FALSE
  /\ UNCHANGED <<recorderInitialized, recordingState, detectedNotes, outbox,
                 finalizeTimer, sessionStart, chanVars, decVars, wkVars,
                 qVars, lgVars>>

\* handleMessage, case 'clear': clearBuffer stores 0 in both indices once
\* the views exist
RecorderClear ==
  /\ clears < MaxClears
  /\ clears' = clears + 1
  /\ IF recorderInitialized
       THEN /\ writeIndex' = 0
            /\ readIndex' = 0
            /\ accepted' = <<>>
            /\ taken' = <<>>
       ELSE UNCHANGED <<writeIndex, readIndex, accepted, taken>>
  /\ UNCHANGED <<capacity, storage, pLocals, cLocals, nextSample,
                 offeredAvail, badAccess, readUnwritten, overwroteUnread,
                 ctlVars, decVars, wkVars, qVars, lgVars>>

\* process(), had it looked only at isInitialized
fastPath_InitializedOnly == ~recorderInitialized

\* the first test of process(): if (!this.isRecording || !this.isInitialized)
fastPath == ~recorderRecording \/ ~recorderInitialized

\* storage after pushToBuffer has copied toWrite samples of data from index on
written(data, toWrite, index) ==
  [slot \in 0..(capacity - 1) |->
     IF \E i \in 0..(toWrite - 1) : slotOf(index, i, capacity) = slot
       THEN data[(CHOOSE i \in 0..(toWrite - 1) :
                    slotOf(index, i, capacity) = slot) + 1]
       ELSE storage[slot]]

\* process(inputs) with a render quantum of n samples
Process(n) ==
  /\ nextSample + n - 1 <= MaxSamples
  /\ nextSample' = nextSample + n
  /\ IF fastPath
       THEN UNCHANGED <<writeIndex, storage, accepted, offeredAvail, pRet>>
       ELSE \E available \in {getAvailableWrite(writeIndex, readIndex, capacity)} :
              \E toWrite \in {toWriteOf(available, n)} :
                /\ offeredAvail' = available
                /\ pRet' = toWrite
                /\ storage' = written([k \in 1..n |-> nextSample + k - 1],
                                      toWrite, writeIndex)
                /\ writeIndex' = IF toWrite = 0 THEN writeIndex
                                 ELSE advance(writeIndex, toWrite, capacity)
                /\ accepted' = accepted \o [k \in 1..toWrite |-> nextSample + k - 1]
  /\ UNCHANGED <<capacity, readIndex, pPc, pImpl, pData, pW, pToWrite,
                 pWriteIndex, pI, cLocals, taken, badAccess, readUnwritten,
                 overwroteUnread, clears, ctlVars, decVars, wkVars, qVars,
                 lgVars>>

\* the reader's skip(count), whole
ReaderSkip(count) ==
  /\ \E toSkip \in {toReadOf(availableRead(writeIndex, readIndex, capacity), count)} :
       /\ toSkip > 0
       /\ readIndex' = advance(readIndex, toSkip, capacity)
       /\ taken' = taken \o [k \in 1..toSkip |-> Skipped]
  /\ UNCHANGED <<capacity, writeIndex, storage, pLocals, cLocals, nextSample,
                 accepted, offeredAvail, badAccess, readUnwritten,
                 overwroteUnread, clears, ctlVars, decVars, wkVars, qVars,
                 lgVars>>

NextWorklet ==
  \/ RecorderInit
  \/ RecorderStart
  \/ RecorderStop
  \/ RecorderClear
  \/ \E n \in 1..MaxBatch : Process(n)
  \/ \E count \in 1..MaxBatch : ReaderSkip(count)

SpecWorklet == InitWorklet /\ [][NextWorklet]_vars

\* C37: the worklet writes to the channel only while it is both initialized
\* and recording: 'start' before 'init' does not start recording, process()
\* outside that leaves writeIndex and storage as they are, and process()
\* never changes readIndex
C37_WritesOnlyWhileRecording ==
  /\ [][RecorderStart /\ ~recorderInitialized => ~recorderRecording']_vars
  /\ [][ \A n \in 1..MaxBatch :
           Process(n) =>
             /\ readIndex' = readIndex
             /\ ~(recorderInitialized /\ recorderRecording)
                  => UNCHANGED <<writeIndex, storage>> ]_vars
  /\ [](recorderRecording => recorderInitialized)

\* process() has been offered samples by a worklet that is initialized and
\* not recording, with room in a channel never cleared, and none is in it
C37_Witness ==
  /\ clears = 0
  /\ recorderInitialized
  /\ ~recorderRecording
  /\ nextSample > 1
  /\ accepted = <<>>
  /\ taken = <<>>
  /\ capacity > 1


(***************************************************************************)
(* simulateNoteDetection, the fallback strategy of demo mode.  A window is *)
(* DemoSamples samples in thousandths of full scale; rms is never formed:  *)
(* each comparison and floor on it is taken on the sum of squares.         *)
(* Math.log2 is exact at whole octaves and linear between them, which is   *)
(* within a semitone of the code's value.                                  *)
(***************************************************************************)
DemoSamples == 4
Amplitudes == {0 - 600, 0, 8, 20, 100, 600}
DemoWindows == [1..DemoSamples -> Amplitudes]
DEFAULT_SAMPLE_RATE == 22050
DemoRates == {sampleRate, DEFAULT_SAMPLE_RATE}
\* Math.log2(0), and what Math.round and the additions leave of it
MinusInfinity == 0 - 1000000

\* the loop adding audio[i] * audio[i]
RECURSIVE sumSquaresOf(_)
sumSquaresOf(audio) ==
  IF audio = <<>> THEN 0
  ELSE Head(audio) * Head(audio) + sumSquaresOf(Tail(audio))

\* rms < 0.01
silent(audio) == sumSquaresOf(audio) < 100 * Len(audio)

\* the loop counting sign changes
zeroCrossingsOf(audio) ==
  Cardinality({i \in 2..Len(audio) : (audio[i] >= 0) /= (audio[i - 1] >= 0)})

\* the number of notes, had it not been capped at 3
numNotesOf_Uncapped(sumSquares, len) ==
  1 + CHOOSE k \in 0..31 :
        /\ k * k * 10000 * len <= 9 * sumSquares
        /\ (k + 1) * (k + 1) * 10000 * len > 9 * sumSquares

\* Math.min(3, Math.floor(rms * 30) + 1)
numNotesOf(sumSquares, len) ==
  Min(3, 1 + CHOOSE k \in 0..31 :
               /\ k * k * 10000 * len <= 9 * sumSquares
               /\ (k + 1) * (k + 1) * 10000 * len > 9 * sumSquares)

\* Math.floor(Math.min(127, rms * 500))
demoVelocityOf(sumSquares, len) ==
  CHOOSE k \in 0..127 :
    /\ k * k * 4 * len <= sumSquares
    /\ k = 127 \/ (k + 1) * (k + 1) * 4 * len > sumSquares

\* Math.min(1, rms * 10), in thousandths, rounded down
demoConfidenceOf(sumSquares, len) ==
  CHOOSE k \in 0..1000 :
    /\ k * k * len <= 100 * sumSquares
    /\ k = 1000 \/ (k + 1) * (k + 1) * len > 100 * sumSquares

\* Math.round(69 + 12 * Math.log2(estimatedFreq / 440)) where estimatedFreq
\* is (zeroCrossings / 2) * (sampleRate / audio.length)
baseMidiOf(zeroCrossings, rate, len) ==
  IF zeroCrossings = 0 THEN MinusInfinity
  ELSE LET num == zeroCrossings * rate
           den == 2 * len * 440
           octave == CHOOSE e \in (0 - 12)..8 :
                       IF e >= 0
                         THEN den * 2^e <= num /\ num < den * 2^(e + 1)
                         ELSE den <= num * 2^(0 - e) /\ num * 2^(0 - e) < 2 * den
           above == IF octave >= 0 THEN num - den * 2^octave
                    ELSE num * 2^(0 - octave) - den
           whole == IF octave >= 0 THEN den * 2^octave ELSE den
       IN 69 + 12 * octave + Round(12 * above, whole)

\* simulateNoteDetection(audio): the notes returned and the types posted
simulateNoteDetection(audio, rate, processed) ==
  IF silent(audio)
    THEN [notes |-> <<>>, posted |-> {}]
    ELSE LET sumSquares == sumSquaresOf(audio)
             numNotes == numNotesOf(sumSquares, Len(audio))
             baseMidi == baseMidiOf(zeroCrossingsOf(audio), rate, Len(audio))
         IN [notes |->
               [i \in 1..numNotes |->
                  [pitch      |-> Max(21, Min(108, baseMidi + ((i - 1) * 4) - 2)),
                   startTime  |-> processed,
                   endTime    |-> processed + rate \div 2,
                   duration   |-> rate \div 2,
                   velocity   |-> demoVelocityOf(sumSquares, Len(audio)),
                   confidence |-> demoConfidenceOf(sumSquares, Len(audio)),
                   isActive   |-> FALSE]],
             posted |-> {"PIANO_ROLL_UPDATE"}]

\* a worker in demo mode, nothing processed yet
InitDemo ==
  /\ ChannelUnused
  /\ DecoderUnused
  /\ WorkerAtRest
  /\ sharedArrayBuffer = TRUE
  /\ QuantizerUnused
  /\ LanguageUnused
  /\ ControlUnused

\* processAudio in demo mode on the window it has peeked into audioBuffer,
\* kept in cOut.  The method reads nothing of the worker but its config and
\* processedSamples, so one call on each worker shows all it can do
SimulateCall(audio, rate) ==
  /\ lastTask.name = "none"
  /\ cOut' = audio
  /\ \E result \in {simulateNoteDetection(audio, rate, processedSamples)} :
       /\ completedNotes' = result.notes
       /\ lastTask' = [name |-> "simulate", posted |-> result.posted]
  /\ UNCHANGED <<capacity, writeIndex, readIndex, storage, pLocals, cPc, cOp,
                 cLen, cOffset, cW, cToRead, cReadIndex, cI, cRet, nextSample,
                 accepted, taken, offeredAvail, badAccess, readUnwritten,
                 overwroteUnread, clears,
                 activeNotes, thresholds, decObs,
                 initialized, session, demoMode, loading, isRunning,
                 processingInterval, processedSamples, inFlight, inbox,
                 isRecording, recordings, captured, stopped, postedSinceStop,
                 lastFrame, windowLog, engVars, qVars, lgVars, ctlVars>>

NextDemo == \E audio \in DemoWindows, rate \in DemoRates : SimulateCall(audio, rate)

SpecDemo == InitDemo /\ [][NextDemo]_vars

\* C40: in fallback mode a window whose RMS is below the silence threshold
\* yields no notes and no piano-roll update; any other window, one without a
\* zero crossing included, yields one to three notes, each with pitch in
\* 21..108, velocity in 0..127 and confidence in 0..1
C40_FallbackNotes ==
  lastTask.name = "simulate" =>
    IF silent(cOut)
      THEN completedNotes = <<>> /\ lastTask.posted = {}
      ELSE /\ Len(completedNotes) \in 1..3
           /\ \A i \in 1..Len(completedNotes) :
                /\ completedNotes[i].pitch \in 21..108
                /\ completedNotes[i].velocity \in 0..127
                /\ completedNotes[i].confidence \in 0..1000

\* a loud window with no zero crossing has given its notes
C40_Witness ==
  /\ lastTask.name = "simulate"
  /\ ~silent(cOut)
  /\ zeroCrossingsOf(cOut) = 0
  /\ Len(completedNotes) = 3

\* ---------------------------------------------------------------------------
\* Stopping a recording: useTranscription.stop, the worker's STOP handler, the
\* delivery of its NOTES_DETECTED message and the finalization that stop()
\* schedules with setTimeout.  outbox holds the NOTES_DETECTED messages the
\* worker has posted and the control context has not handled yet, each with
\* the operation that posted it.  The ticks are those of a loaded model whose
\* inference succeeds.
\* ---------------------------------------------------------------------------
\* the recordings a page makes before it is left
MaxSessions == 1

\* useTranscription.start, when the engine is not recording
Start ==
  /\ recordingState /= "recording"
  /\ recordings < MaxSessions
  /\ startRecording
  /\ recordingState' = "recording"
  /\ UNCHANGED <<recorderInitialized, recorderRecording, detectedNotes, outbox,
                 finalizeTimer, sessionStart>>

\* useTranscription.stop
Stop ==
  /\ recordingState = "recording"
  /\ stopRecording
  /\ recordingState' = "processing"
  /\ finalizeTimer' = finalizeTimer + 1
  /\ UNCHANGED <<recorderInitialized, recorderRecording, detectedNotes, outbox,
                 sessionStart>>

\* postMessage({ type: 'NOTES_DETECTED', notes }) of the operation `from`
notesDetected(from, notes) ==
  IF notes /= <<>>
    THEN Append(outbox, [type |-> "NOTES_DETECTED", from |-> from, notes |-> notes])
    ELSE outbox

\* the worker handles STOP and posts the notes it closed
HandleStopPosting ==
  /\ processorStop
  /\ outbox' = notesDetected("stop", IF initialized THEN completedNotes' ELSE <<>>)
  /\ UNCHANGED <<recorderInitialized, recorderRecording, recordingState,
                 detectedNotes, finalizeTimer, sessionStart>>

\* a tick's inference returns and the notes it completed are posted
TickEndPosting(roll) ==
  /\ inferenceReturns(roll)
  /\ outbox' = notesDetected("processAudio", completedNotes')
  /\ UNCHANGED <<recorderInitialized, recorderRecording, recordingState,
                 detectedNotes, finalizeTimer, sessionStart>>

\* worker.onmessage, case 'NOTES_DETECTED': addNotes(message.notes)
DeliverNotes ==
  /\ outbox /= <<>>
  /\ detectedNotes' = detectedNotes \o Head(outbox).notes
  /\ outbox' = Tail(outbox)
  /\ UNCHANGED <<recorderInitialized, recorderRecording, recordingState,
                 finalizeTimer, sessionStart, chanVars, decVars, wkVars, qVars,
                 lgVars>>

\* a worker note, its times in the quantizer's unit
inSeconds(note) ==
  [pitch     |-> note.pitch,
   startTime |-> note.startTime * (OneSecond \div sampleRate),
   duration  |-> note.duration * (OneSecond \div sampleRate),
   velocity  |-> note.velocity]

\* notes.forEach(note => quantizer.addOnset(note.startTime)), autoDetectBPM,
\* setBPM and quantizeNotes(notes) on the shared quantizer
finalized(notes) ==
  LET onsets == onsetsOfEach(notes, onsetTimes)
      cfg    == [config EXCEPT !.bpm = estimateBPM(onsets)]
      result == quantizeNotes(notes, cfg, onsets)
  IN  [config |-> cfg, onsetTimes |-> result.onsetTimes, notes |-> result.notes]

\* the timeout of stop() fires: finalizeTranscription
FinalizeTranscription ==
  /\ finalizeTimer > 0
  /\ finalizeTimer' = finalizeTimer - 1
  /\ recordingState' = "idle"
  /\ lastOp' = "finalizeTranscription"
  /\ lastArg' = detectedNotes
  /\ repeated' = FALSE
  /\ IF detectedNotes = <<>>
       THEN UNCHANGED <<config, onsetTimes, returned>>
       ELSE \E result \in {finalized([i \in DOMAIN detectedNotes |->
                                        inSeconds(detectedNotes[i])])} :
              /\ config' = result.config
              /\ onsetTimes' = result.onsetTimes
              /\ returned' = result.notes
  /\ UNCHANGED <<recorderInitialized, recorderRecording, detectedNotes, outbox,
                 sessionStart, chanVars, decVars, wkVars, lgVars>>

NextFinalize ==
  \/ Start
  \/ Stop
  \/ Capture
  \/ HandleInit
  \/ LoadModelEnds
  \/ HandleStart
  \/ HandleStopPosting
  \/ TickIdle
  \/ TickNoSession
  \/ TickBegin
  \/ \E roll \in Rolls : TickEndPosting(roll)
  \/ DeliverNotes
  \/ FinalizeTranscription

SpecFinalize == InitWorker /\ [][NextFinalize]_vars

\* the notes of a list of notes
notesIn(list) == {list[i] : i \in DOMAIN list}

\* the forced-close messages the control context has not handled yet
undelivered == {i \in DOMAIN outbox : outbox[i].from = "stop"}

\* C39: once the first recording's finalization has quantized the detected
\* notes, every note of a forced-close NOTES_DETECTED message of the worker is
\* in the list it quantized: none is still waiting to be delivered
C39_FinalizedWithForcedClose ==
  recordings = 1 /\ lastOp = "finalizeTranscription" /\ lastArg /= <<>>
    => \A i \in undelivered : notesIn(outbox[i].notes) \subseteq notesIn(lastArg)

=============================================================================
